---------------------------- MODULE Spec2Model ----------------------------
(***************************************************************************)
(* State-machine model of the pole game of ollama-telegram-py-bot:         *)
(* classification of a group message (pole.py check_pole_message), the     *)
(* once-per-day and slot-order rules (process_pole_attempt,                *)
(* check_order_condition), the Pole Mina counter puzzle                    *)
(* (process_counter_based_pole, Pole.track_attempt, PoleMina) and the      *)
(* documents they keep in the store (models.py).                           *)
(*                                                                         *)
(* Points are kept in units of 1/10000 point, so that every configured    *)
(* value (10, 2.5, 1.25, 0.05, 0.0001, ...) is an integer.                 *)
(* A message text is the sequence of the pieces between its single         *)
(* spaces; an empty piece stands for an extra blank.                       *)
(* An instant is a number of minutes of UTC time; a calendar day is the    *)
(* number of whole days in it.                                             *)
(***************************************************************************)
EXTENDS Integers, Sequences, FiniteSets, TLC

(***************************************************************************)
(* config.py: the catalog.  A dict is a function from its keys; the        *)
(* *_ORDER tuples keep the insertion order of the keys, which is the order *)
(* in which the triggers are tried.                                        *)
(***************************************************************************)
POLE_TYPES_ORDER ==
    <<"Pole",
      "Subpole",
      "Subsubpole",
      "Pole Canaria",
      "Subpole Canaria",
      "Subsubpole Canaria",
      "Pole Andaluza",
      "Subpole Andaluza",
      "Subsubpole Andaluza">>

POLE_TYPES ==
    ("Pole" :> [triggers |-> <<<<"pole">>, <<"oro">>>>, points |-> 100000, order |-> 1, time_condition |-> [type |-> "daily_reset", start_hour |-> 0]]) @@
    ("Subpole" :> [triggers |-> <<<<"subpole">>, <<"plata">>>>, points |-> 50000, order |-> 2, time_condition |-> [type |-> "daily_reset", start_hour |-> 0]]) @@
    ("Subsubpole" :> [triggers |-> <<<<"subsubpole">>, <<"bronce">>>>, points |-> 25000, order |-> 3, time_condition |-> [type |-> "daily_reset", start_hour |-> 0]]) @@
    ("Pole Canaria" :> [triggers |-> <<<<"pole", "canaria">>, <<"oro", "canario">>>>, points |-> 50000, order |-> 1, time_condition |-> [type |-> "daily_reset", start_hour |-> 1]]) @@
    ("Subpole Canaria" :> [triggers |-> <<<<"subpole", "canaria">>, <<"plata", "canario">>>>, points |-> 25000, order |-> 2, time_condition |-> [type |-> "daily_reset", start_hour |-> 1]]) @@
    ("Subsubpole Canaria" :> [triggers |-> <<<<"subsubpole", "canaria">>, <<"bronce", "canario">>>>, points |-> 12500, order |-> 3, time_condition |-> [type |-> "daily_reset", start_hour |-> 1]]) @@
    ("Pole Andaluza" :> [triggers |-> <<<<"pole", "andaluza">>, <<"oro", "andaluz">>>>, points |-> 5000, order |-> 1, time_condition |-> [type |-> "time_range", start_hour |-> 12, end_hour |-> 16]]) @@
    ("Subpole Andaluza" :> [triggers |-> <<<<"subpole", "andaluza">>, <<"plata", "andaluza">>>>, points |-> 2500, order |-> 2, time_condition |-> [type |-> "time_range", start_hour |-> 12, end_hour |-> 16]]) @@
    ("Subsubpole Andaluza" :> [triggers |-> <<<<"subsubpole", "andaluza">>, <<"bronce", "andaluz">>>>, points |-> 1000, order |-> 3, time_condition |-> [type |-> "time_range", start_hour |-> 12, end_hour |-> 16]])

TIME_SPECIFIC_POLES_ORDER ==
    <<"Hora Porro",
      "Hora π",
      "Pole Mina">>

TIME_SPECIFIC_POLES ==
    ("Hora Porro" :> [triggers |-> <<<<"hora", "porro">>>>, points |-> 40000, time_condition |-> [type |-> "exact_time", exact_times |-> <<[hour |-> 4, minute |-> 20], [hour |-> 16, minute |-> 20]>>]]) @@
    ("Hora π" :> [triggers |-> <<<<"hora", "pi">>, <<"hora", "π">>>>, points |-> 30000, time_condition |-> [type |-> "exact_time", exact_times |-> <<[hour |-> 3, minute |-> 14], [hour |-> 15, minute |-> 14]>>]]) @@
    ("Pole Mina" :> [triggers |-> <<<<"pole", "mina">>>>, time_condition |-> [type |-> "counter_based", counter |-> 20]])

ADDITIONAL_POLE_TYPES_ORDER ==
    <<"Fracapole",
      "Poleet",
      "Poeet",
      "Polen",
      "Mastil",
      "Neopole",
      "Pole Binaria",
      "Pole Boix",
      "Pole Básica",
      "Pole Cafelito",
      "Pole Clásica",
      "Pole Contemporánea",
      "Pole Cotizante",
      "Pole CRX",
      "Pole Crítica",
      "Pole Eterna",
      "Pole Fran",
      "Pole Germà",
      "Pole Insomnio",
      "Pole Letal",
      "Pole Magnas",
      "Alarma Magnas",
      "Pole Mistica",
      "Pole Montero",
      "Pole Máxima",
      "Pole Mínima",
      "Pole Presko",
      "Pole Toakiza",
      "Pole Ucraniana",
      "Polerdaka",
      "Polerdakardamenaka",
      "Polerdamen",
      "Postpole",
      "Prepole",
      "Pseudopole",
      "Pole Cuck">>

ADDITIONAL_POLE_TYPES ==
    ("Fracapole" :> [triggers |-> <<<<"fracapole">>, <<"fail">>>>, points |-> 10000]) @@
    ("Poleet" :> [triggers |-> <<<<"poleet">>>>, points |-> 10000]) @@
    ("Poeet" :> [triggers |-> <<<<"poeet">>>>, points |-> 10000]) @@
    ("Polen" :> [triggers |-> <<<<"polen">>>>, points |-> 1000]) @@
    ("Mastil" :> [triggers |-> <<<<"mastil">>, <<"mástil">>>>, points |-> 0]) @@
    ("Neopole" :> [triggers |-> <<<<"neopole">>>>, points |-> 500]) @@
    ("Pole Binaria" :> [triggers |-> <<<<"pole", "binaria">>>>, points |-> 500]) @@
    ("Pole Boix" :> [triggers |-> <<<<"pole", "boix">>>>, points |-> 500]) @@
    ("Pole Básica" :> [triggers |-> <<<<"pole", "básica">>>>, points |-> 500]) @@
    ("Pole Cafelito" :> [triggers |-> <<<<"pole", "cafelito">>>>, points |-> 5000]) @@
    ("Pole Clásica" :> [triggers |-> <<<<"pole", "clásica">>>>, points |-> 500]) @@
    ("Pole Contemporánea" :> [triggers |-> <<<<"pole", "contemporánea">>>>, points |-> 500]) @@
    ("Pole Cotizante" :> [triggers |-> <<<<"pole", "cotizante">>>>, points |-> 15000]) @@
    ("Pole CRX" :> [triggers |-> <<<<"pole", "crx">>>>, points |-> 1000]) @@
    ("Pole Crítica" :> [triggers |-> <<<<"pole", "crítica">>>>, points |-> 500]) @@
    ("Pole Eterna" :> [triggers |-> <<<<"pole", "eterna">>>>, points |-> 500]) @@
    ("Pole Fran" :> [triggers |-> <<<<"pole", "fran">>>>, points |-> 500]) @@
    ("Pole Germà" :> [triggers |-> <<<<"pole", "germà">>, <<"pole", "germa">>>>, points |-> 500]) @@
    ("Pole Insomnio" :> [triggers |-> <<<<"pole", "insomnio">>>>, points |-> 3000]) @@
    ("Pole Letal" :> [triggers |-> <<<<"pole", "letal">>>>, points |-> 500]) @@
    ("Pole Magnas" :> [triggers |-> <<<<"pole", "magnas">>>>, points |-> 500]) @@
    ("Alarma Magnas" :> [triggers |-> <<<<"alarma", "magnas">>>>, points |-> 5000]) @@
    ("Pole Mistica" :> [triggers |-> <<<<"pole", "mística">>>>, points |-> 500]) @@
    ("Pole Montero" :> [triggers |-> <<<<"pole", "montero">>>>, points |-> 500]) @@
    ("Pole Máxima" :> [triggers |-> <<<<"pole", "máxima">>>>, points |-> 500]) @@
    ("Pole Mínima" :> [triggers |-> <<<<"pole", "mínima">>>>, points |-> 500]) @@
    ("Pole Presko" :> [triggers |-> <<<<"pole", "presko">>>>, points |-> 500]) @@
    ("Pole Toakiza" :> [triggers |-> <<<<"pole", "toakiza">>>>, points |-> 10000]) @@
    ("Pole Ucraniana" :> [triggers |-> <<<<"pole", "ucraniana">>>>, points |-> 500]) @@
    ("Polerdaka" :> [triggers |-> <<<<"polerdaka">>>>, points |-> 500]) @@
    ("Polerdakardamenaka" :> [triggers |-> <<<<"polerdakardamenaka">>>>, points |-> 500]) @@
    ("Polerdamen" :> [triggers |-> <<<<"polerdamen">>>>, points |-> 500]) @@
    ("Postpole" :> [triggers |-> <<<<"postpole">>>>, points |-> 500]) @@
    ("Prepole" :> [triggers |-> <<<<"prepole">>>>, points |-> 500]) @@
    ("Pseudopole" :> [triggers |-> <<<<"pseudopole">>>>, points |-> 500]) @@
    ("Pole Cuck" :> [triggers |-> <<<<"pole", "cuck">>>>, points |-> 100])

\* config.py:182  {**POLE_TYPES, **TIME_SPECIFIC_POLES, **ADDITIONAL_POLE_TYPES}
ALL_POLE_TYPES == ADDITIONAL_POLE_TYPES @@ TIME_SPECIFIC_POLES @@ POLE_TYPES

ALL_POLE_TYPES_ORDER ==
    POLE_TYPES_ORDER \o TIME_SPECIFIC_POLES_ORDER \o ADDITIONAL_POLE_TYPES_ORDER

RECURSIVE Flatten(_)
Flatten(ss) == IF ss = <<>> THEN <<>> ELSE Head(ss) \o Flatten(Tail(ss))

\* config.py:185-202  one (pattern, pole_type) pair per trigger, in catalog order
COMPILED_TRIGGERS ==
    Flatten([i \in 1..Len(ALL_POLE_TYPES_ORDER) |->
        LET pole_type == ALL_POLE_TYPES_ORDER[i]
            triggers  == ALL_POLE_TYPES[pole_type].triggers
        IN  [j \in 1..Len(triggers) |-> <<triggers[j], pole_type>>]])

\* The cosmetic reactions (config.MESSAGE_REACTIONS is imported by pole.py:14).
MESSAGE_REACTIONS ==
    ("dios_xd" :> [pattern |-> <<"dios", "xd">>, points |-> 0,
                   capture_groups |-> TRUE])

MESSAGE_REACTIONS_ORDER == <<"dios_xd">>

\* pole.py:24-36
COMPILED_REACTIONS ==
    [i \in 1..Len(MESSAGE_REACTIONS_ORDER) |->
        <<MESSAGE_REACTIONS[MESSAGE_REACTIONS_ORDER[i]].pattern,
          MESSAGE_REACTIONS_ORDER[i]>>]

(***************************************************************************)
(* Values.                                                                 *)
(***************************************************************************)
None == [none |-> TRUE]

NoId == <<>>

Min(S) == CHOOSE x \in S : \A y \in S : x <= y

\* str.lower() on the pieces that occur in the modelled messages
Lower(w) ==
    CASE w = "Pole"    -> "pole"
      [] w = "POLE"    -> "pole"
      [] w = "Subpole" -> "subpole"
      [] w = "Mina"    -> "mina"
      [] w = "MINA"    -> "mina"
      [] w = "Canaria" -> "canaria"
      [] w = "XD"      -> "xd"
      [] OTHER         -> w

\* str.strip(): blanks at both ends go, blanks inside stay
RECURSIVE StripLeft(_)
StripLeft(text) ==
    IF text # <<>> /\ Head(text) = "" THEN StripLeft(Tail(text)) ELSE text

RECURSIVE StripRight(_)
StripRight(text) ==
    IF text # <<>> /\ text[Len(text)] = ""
    THEN StripRight(SubSeq(text, 1, Len(text) - 1))
    ELSE text

Strip(text) == StripRight(StripLeft(text))

\* pole.py:130  message_text.strip().lower()
Normalize(message_text) ==
    LET s == Strip(message_text) IN [i \in 1..Len(s) |-> Lower(s[i])]

\* pole.py:39  ^pole\s+\S+.*$
CLOWN_POLE_PATTERN(text) ==
    /\ Len(text) >= 2
    /\ text[1] = "pole"
    /\ \E i \in 2..Len(text) : text[i] # ""

\* MatchTrigger trying the triggers of one word only
MatchTrigger_KeywordOnly(normalized_text) ==
    LET hits == {i \in 1..Len(COMPILED_TRIGGERS) :
                    /\ Len(COMPILED_TRIGGERS[i][1]) = 1
                    /\ COMPILED_TRIGGERS[i][1] = normalized_text}
    IN  IF hits = {} THEN "" ELSE COMPILED_TRIGGERS[Min(hits)][2]

\* pole.py:134-139  for every trigger text, the type of the first compiled
\* trigger that fullmatches it
FirstMatch ==
    [text \in {COMPILED_TRIGGERS[i][1] : i \in 1..Len(COMPILED_TRIGGERS)} |->
        COMPILED_TRIGGERS[Min({i \in 1..Len(COMPILED_TRIGGERS) :
                                  COMPILED_TRIGGERS[i][1] = text})][2]]

\* pole.py:134-139  the first compiled trigger that fullmatches, or None
MatchTrigger(normalized_text) ==
    IF normalized_text \in DOMAIN FirstMatch THEN FirstMatch[normalized_text] ELSE ""

\* pole.py:215-217
MatchReaction(normalized_text) ==
    LET hits == {i \in 1..Len(COMPILED_REACTIONS) :
                    COMPILED_REACTIONS[i][1] = Strip(normalized_text)}
    IN  IF hits = {} THEN "" ELSE COMPILED_REACTIONS[Min(hits)][2]

(***************************************************************************)
(* Time.  pole.py:21,127: the message instant is converted to Europe/Madrid *)
(* once; the modelled days lie in winter time (CET, UTC+1).                *)
(***************************************************************************)
MADRID_UTC_OFFSET == 60

\* astimezone keeping the UTC clock
astimezone_UTC(message_date) ==
    [date |-> message_date \div 1440, hour |-> (message_date % 1440) \div 60,
     minute |-> message_date % 60]

astimezone(message_date) ==
    LET t == message_date + MADRID_UTC_OFFSET
    IN  [date |-> t \div 1440, hour |-> (t % 1440) \div 60, minute |-> t % 60]

\* check_time_condition comparing the hour of an exact time only
check_time_condition_HourOnly(time_condition, current_time) ==
    LET condition_type == time_condition.type IN
    CASE condition_type = "exact_time" ->
            \E i \in 1..Len(time_condition.exact_times) :
                current_time.hour = time_condition.exact_times[i].hour
      [] condition_type = "time_range" ->
            /\ time_condition.start_hour <= current_time.hour
            /\ current_time.hour < time_condition.end_hour
      [] condition_type = "daily_reset" -> TRUE
      [] condition_type = "counter_based" -> TRUE
      [] OTHER -> FALSE

\* check_time_condition with the end hour of a range included
check_time_condition_EndIncluded(time_condition, current_time) ==
    LET condition_type == time_condition.type IN
    CASE condition_type = "exact_time" ->
            \E i \in 1..Len(time_condition.exact_times) :
                /\ current_time.hour = time_condition.exact_times[i].hour
                /\ current_time.minute = time_condition.exact_times[i].minute
      [] condition_type = "time_range" ->
            /\ time_condition.start_hour <= current_time.hour
            /\ current_time.hour <= time_condition.end_hour
      [] condition_type = "daily_reset" -> TRUE
      [] condition_type = "counter_based" -> TRUE
      [] OTHER -> FALSE

\* check_time_condition opening a daily-reset type at its configured hour
check_time_condition_ResetGated(time_condition, current_time) ==
    LET condition_type == time_condition.type IN
    CASE condition_type = "exact_time" ->
            \E i \in 1..Len(time_condition.exact_times) :
                /\ current_time.hour = time_condition.exact_times[i].hour
                /\ current_time.minute = time_condition.exact_times[i].minute
      [] condition_type = "time_range" ->
            /\ time_condition.start_hour <= current_time.hour
            /\ current_time.hour < time_condition.end_hour
      [] condition_type = "daily_reset" ->
            current_time.hour >= time_condition.start_hour
      [] condition_type = "counter_based" -> TRUE
      [] OTHER -> FALSE

\* pole.py:396-435
check_time_condition(time_condition, current_time) ==
    LET condition_type == time_condition.type IN
    CASE condition_type = "exact_time" ->
            \E i \in 1..Len(time_condition.exact_times) :
                /\ current_time.hour = time_condition.exact_times[i].hour
                /\ current_time.minute = time_condition.exact_times[i].minute
      [] condition_type = "time_range" ->
            /\ time_condition.start_hour <= current_time.hour
            /\ current_time.hour < time_condition.end_hour
      [] condition_type = "daily_reset" -> TRUE
      [] condition_type = "counter_based" -> TRUE
      [] OTHER -> FALSE

(***************************************************************************)
(* The document store (models.py).  db is the record of the collections:   *)
(*   users         telegram_id |-> [is_bot, total_points, poles_claimed]   *)
(*   user_poles    <<user_id, group_id>> |-> [total_points, poles_claimed] *)
(*   groups        chat_id |-> [total_poles]                               *)
(*   poles         the ClaimRecords, in insertion order                    *)
(*   poles_cache   <<group_id, date>> |-> [claimed: type |-> [user_id]]    *)
(*   pole_counters <<group_id, type, date>> |->                            *)
(*                     [count, user_attempts, completed]                   *)
(*   pole_mina     <<group_id, date>> |->                                  *)
(*                     [random_string, required_count, revealed_positions] *)
(* The keyed collections carry the unique indexes that check_db.py puts on *)
(* them; poles has none.  The attempt log user_attempts is only ever       *)
(* appended to and never read: its length is kept.                         *)
(* faults is the set of store calls that raise while one message is        *)
(* handled; it is empty when the store answers every call.                 *)
(***************************************************************************)

\* User_create_or_update writing the initial score with $set instead of
\* $setOnInsert
User_create_or_update_ResetScore(db, telegram_id, is_bot, faults) ==
    IF "User.create_or_update" \in faults THEN db
    ELSE [db EXCEPT !.users =
            (telegram_id :> [is_bot |-> is_bot, total_points |-> 0,
                             poles_claimed |-> 0]) @@ @]

\* models.py:204-232
User_create_or_update(db, telegram_id, is_bot, faults) ==
    IF "User.create_or_update" \in faults THEN db
    ELSE [db EXCEPT !.users =
            IF telegram_id \in DOMAIN @
            THEN [@ EXCEPT ![telegram_id].is_bot = is_bot]
            ELSE @ @@ (telegram_id :>
                        [is_bot |-> is_bot, total_points |-> 0, poles_claimed |-> 0])]

\* Group_create_or_update writing the initial count with $set instead of
\* $setOnInsert
Group_create_or_update_ResetCount(db, chat_id, faults) ==
    IF "Group.create_or_update" \in faults THEN db
    ELSE [db EXCEPT !.groups = (chat_id :> [total_poles |-> 0]) @@ @]

\* models.py:308-331
Group_create_or_update(db, chat_id, faults) ==
    IF "Group.create_or_update" \in faults THEN db
    ELSE [db EXCEPT !.groups =
            IF chat_id \in DOMAIN @ THEN @
            ELSE @ @@ (chat_id :> [total_poles |-> 0])]

\* models.py:273-279  users.update_one, no upsert
users_inc(db, telegram_id, points) ==
    [db EXCEPT !.users =
        IF telegram_id \in DOMAIN @
        THEN [@ EXCEPT ![telegram_id].total_points = @ + points,
                       ![telegram_id].poles_claimed = @ + 1]
        ELSE @]

\* user_poles_inc counting the claim without adding its points
user_poles_inc_CountOnly(db, telegram_id, group_id, points) ==
    LET key == <<telegram_id, group_id>> IN
    [db EXCEPT !.user_poles =
        IF key \in DOMAIN @
        THEN [@ EXCEPT ![key].poles_claimed = @ + 1]
        ELSE @ @@ (key :> [total_points |-> 0, poles_claimed |-> 1])]

\* models.py:282-297  user_poles.update_one, upsert=True
user_poles_inc(db, telegram_id, group_id, points) ==
    LET key == <<telegram_id, group_id>> IN
    [db EXCEPT !.user_poles =
        IF key \in DOMAIN @
        THEN [@ EXCEPT ![key].total_points = @ + points,
                       ![key].poles_claimed = @ + 1]
        ELSE @ @@ (key :> [total_points |-> points, poles_claimed |-> 1])]

\* User_update_points raising the global score only
User_update_points_GlobalOnly(db, telegram_id, group_id, points, faults) ==
    IF "update_points.users" \in faults THEN db
    ELSE users_inc(db, telegram_id, points)

\* models.py:263-302  the first call that raises ends the try block
User_update_points(db, telegram_id, group_id, points, faults) ==
    IF "update_points.users" \in faults THEN db
    ELSE LET db1 == users_inc(db, telegram_id, points) IN
         IF "update_points.user_poles" \in faults THEN db1
         ELSE user_poles_inc(db1, telegram_id, group_id, points)

\* models.py:342-352
Group_increment_pole_count(db, chat_id, faults) ==
    IF "increment_pole_count" \in faults THEN db
    ELSE [db EXCEPT !.groups =
            IF chat_id \in DOMAIN @
            THEN [@ EXCEPT ![chat_id].total_poles = @ + 1]
            ELSE @]

\* models.py:368-379
NewPoleData(user_id, group_id, pole_type, points, message_date) ==
    [user_id |-> user_id, group_id |-> group_id, type |-> pole_type,
     points |-> points, date |-> message_date.date, created_at |-> message_date]

\* models.py:383  poles_collection.insert_one
poles_insert_one(db, pole_data) ==
    [db EXCEPT !.poles = Append(@, pole_data)]

\* Pole_create refusing a second record of the type for the user and day
Pole_create_OncePerDay(db, user_id, group_id, pole_type, points, message_date, faults) ==
    IF \E i \in 1..Len(db.poles) :
           /\ db.poles[i].user_id = user_id
           /\ db.poles[i].type = pole_type
           /\ db.poles[i].date = message_date.date
    THEN [db |-> db, pole_data |-> None]
    ELSE [db |-> Group_increment_pole_count(
                    User_update_points(
                        poles_insert_one(db, NewPoleData(user_id, group_id, pole_type,
                                                         points, message_date)),
                        user_id, group_id, points, faults),
                    group_id, faults),
          pole_data |-> NewPoleData(user_id, group_id, pole_type, points, message_date)]

\* models.py:358-395  returns [db, pole_data]
Pole_create(db, user_id, group_id, pole_type, points, message_date, faults) ==
    LET pole_data == NewPoleData(user_id, group_id, pole_type, points, message_date) IN
    IF "Pole.create.insert" \in faults THEN [db |-> db, pole_data |-> None]
    ELSE LET db1 == poles_insert_one(db, pole_data)
             db2 == User_update_points(db1, user_id, group_id, points, faults)
             db3 == Group_increment_pole_count(db2, group_id, faults)
         IN  [db |-> db3, pole_data |-> pole_data]

\* cache_has_claimed looking the type up in the day's cache of any group
cache_has_claimed_AnyGroup(db, group_id, pole_type, date) ==
    \E key \in DOMAIN db.poles_cache :
        /\ key[2] = date
        /\ pole_type \in DOMAIN db.poles_cache[key].claimed

\* models.py:457-463  find_one with claimed.<pole_type> $exists
cache_has_claimed(db, group_id, pole_type, date) ==
    /\ <<group_id, date>> \in DOMAIN db.poles_cache
    /\ pole_type \in DOMAIN db.poles_cache[<<group_id, date>>].claimed

\* models.py:470-473
poles_has(db, group_id, pole_type, date) ==
    \E i \in 1..Len(db.poles) :
        /\ db.poles[i].group_id = group_id
        /\ db.poles[i].type = pole_type
        /\ db.poles[i].date = date

\* Pole_pole_exists without its lookups: nothing is ever found claimed
Pole_pole_exists_NeverClaimed(db, group_id, pole_type, date, faults) ==
    FALSE

\* models.py:451-477  an exception is logged and answered False
Pole_pole_exists(db, group_id, pole_type, date, faults) ==
    IF "pole_exists.cache" \in faults THEN FALSE
    ELSE IF cache_has_claimed(db, group_id, pole_type, date) THEN TRUE
    ELSE IF "pole_exists.poles" \in faults THEN FALSE
    ELSE poles_has(db, group_id, pole_type, date)

\* models.py:485  find({"group_id", "date"}): the day's records of the group
poles_find(db, group_id, date) ==
    SelectSeq(db.poles, LAMBDA p : p.group_id = group_id /\ p.date = date)

\* models.py:479-491
Pole_get_daily_poles(db, group_id, date, faults) ==
    IF "get_daily_poles" \in faults THEN <<>>
    ELSE poles_find(db, group_id, date)

\* poles_cache_set replacing the whole claimed map by the new entry
poles_cache_set_Overwrite(db, group_id, pole_type, date, user_id) ==
    LET key   == <<group_id, date>>
        entry == pole_type :> [user_id |-> user_id]
    IN  [db EXCEPT !.poles_cache =
            IF key \in DOMAIN @
            THEN [@ EXCEPT ![key].claimed = entry]
            ELSE @ @@ (key :> [claimed |-> entry])]

\* models.py:544-555  update_one, upsert=True, $set claimed.<pole_type>
poles_cache_set(db, group_id, pole_type, date, user_id) ==
    LET key   == <<group_id, date>>
        entry == pole_type :> [user_id |-> user_id]
    IN  [db EXCEPT !.poles_cache =
            IF key \in DOMAIN @
            THEN [@ EXCEPT ![key].claimed = entry @@ @]
            ELSE @ @@ (key :> [claimed |-> entry])]

\* models.py:536-559
Pole_mark_pole_claimed(db, group_id, pole_type, date, user_id, faults) ==
    IF "mark_pole_claimed" \in faults THEN db
    ELSE poles_cache_set(db, group_id, pole_type, date, user_id)

(***************************************************************************)
(* DummyCollection, the collection of the in-memory fallback store: data   *)
(* is the list of its documents, a document a function from field names,   *)
(* an update the list of its operators [op, fields] in the order written.  *)
(***************************************************************************)
\* models.py:47-51
DummyMatches(doc, filter) ==
    \A k \in DOMAIN filter : k \in DOMAIN doc /\ doc[k] = filter[k]

\* models.py:59-64  $inc
DummyInc(doc, fields) ==
    [k \in DOMAIN doc \cup DOMAIN fields |->
        IF k \notin DOMAIN fields THEN doc[k]
        ELSE IF k \in DOMAIN doc THEN doc[k] + fields[k]
        ELSE fields[k]]

\* models.py:53-68  the operators applied to the matching document: $set
\* writes its fields, $inc adds, $setOnInsert fills in the fields that the
\* document lacks when the document is the last of the list
RECURSIVE DummyApply(_, _, _)
DummyApply(doc, update, is_last) ==
    IF update = <<>> THEN doc
    ELSE DummyApply(
             IF Head(update).op = "$set" THEN Head(update).fields @@ doc
             ELSE IF Head(update).op = "$inc" THEN DummyInc(doc, Head(update).fields)
             ELSE IF Head(update).op = "$setOnInsert" /\ is_last
             THEN doc @@ Head(update).fields
             ELSE doc,
             Tail(update), is_last)

\* models.py:71-82  the document an upsert inserts, before it gets its _id
RECURSIVE DummyNewDoc(_, _)
DummyNewDoc(new_doc, update) ==
    IF update = <<>> THEN new_doc
    ELSE DummyNewDoc(
             IF Head(update).op \in {"$set", "$setOnInsert", "$inc"}
             THEN Head(update).fields @@ new_doc
             ELSE new_doc,
             Tail(update))

\* models.py:38-42, 45-86  the list after update_one; the _id counter is one
\* above the number of documents, none being ever removed
DummyCollection_update_one(data, filter, update, upsert) ==
    IF \E i \in 1..Len(data) : DummyMatches(data[i], filter)
    THEN LET i == Min({j \in 1..Len(data) : DummyMatches(data[j], filter)})
         IN  [data EXCEPT ![i] = DummyApply(@, update, i = Len(data))]
    ELSE IF upsert
    THEN Append(data, ("_id" :> Len(data) + 1) @@ DummyNewDoc(filter, update))
    ELSE data

\* models.py:204-232 on DummyCollection (of user_data, the fields the store
\* of the model keeps)
Dummy_User_create_or_update(data, telegram_id, is_bot) ==
    DummyCollection_update_one(data,
        [telegram_id |-> telegram_id],
        << [op |-> "$set",
            fields |-> [telegram_id |-> telegram_id, is_bot |-> is_bot]],
           [op |-> "$setOnInsert",
            fields |-> [total_points |-> 0, poles_claimed |-> 0]] >>,
        TRUE)

\* models.py:308-331 on DummyCollection
Dummy_Group_create_or_update(data, chat_id) ==
    DummyCollection_update_one(data,
        [chat_id |-> chat_id],
        << [op |-> "$set", fields |-> [chat_id |-> chat_id]],
           [op |-> "$setOnInsert", fields |-> [total_poles |-> 0]] >>,
        TRUE)

(***************************************************************************)
(* Slot order (pole.py check_order_condition).                             *)
(***************************************************************************)
\* pole.py:453-457, 472-480, 515-521  the hour that groups ordered types
FamilyStartHour(config) ==
    IF /\ "time_condition" \in DOMAIN config
       /\ config.time_condition.type = "daily_reset"
    THEN config.time_condition.start_hour
    ELSE 0

\* pole.py:469-470, 512-513
IsOrderedType(pole_type) ==
    /\ pole_type \in DOMAIN ALL_POLE_TYPES
    /\ "order" \in DOMAIN ALL_POLE_TYPES[pole_type]

\* pole.py:466-489  the family's entries of the claimed-types cache
FamilyFromCache(claimed, start_hour) ==
    {[type |-> t, user_id |-> claimed[t].user_id, order |-> ALL_POLE_TYPES[t].order] :
        t \in {c \in DOMAIN claimed :
                  /\ IsOrderedType(c)
                  /\ FamilyStartHour(ALL_POLE_TYPES[c]) = start_hour}}

\* pole.py:510-524  the family's records among the day's ClaimRecords
FamilyFromPoles(daily_poles, start_hour) ==
    SelectSeq(daily_poles, LAMBDA p :
        /\ IsOrderedType(p.type)
        /\ FamilyStartHour(ALL_POLE_TYPES[p.type]) = start_hour)

\* OrderDecision without the test that the user holds no slot of the family
OrderDecision_NoHolderCheck(n, family_users, order, user_id) ==
    IF n >= order THEN FALSE
    ELSE n + 1 = order

\* OrderDecision without the test that the slot is the next one
OrderDecision_AnyFreeSlot(n, family_users, order, user_id) ==
    IF n >= order THEN FALSE
    ELSE user_id \notin family_users

\* pole.py:491-501, 526-536  n granted slots, held by family_users
OrderDecision(n, family_users, order, user_id) ==
    IF n >= order THEN FALSE
    ELSE IF user_id \in family_users THEN FALSE
    ELSE n + 1 = order

\* pole.py:464-501  the decision read off the claimed-types cache document
OrderByCache(pole_cache, pole_config, user_id) ==
    OrderDecision(
        Cardinality(FamilyFromCache(pole_cache.claimed, FamilyStartHour(pole_config))),
        {p.user_id : p \in FamilyFromCache(pole_cache.claimed, FamilyStartHour(pole_config))},
        pole_config.order, user_id)

\* pole.py:509-536  the decision read off the day's ClaimRecords
OrderByPoles(daily_poles, pole_config, user_id) ==
    OrderDecision(
        Len(FamilyFromPoles(daily_poles, FamilyStartHour(pole_config))),
        {p.user_id : p \in
            {FamilyFromPoles(daily_poles, FamilyStartHour(pole_config))[i] :
                i \in 1..Len(FamilyFromPoles(daily_poles, FamilyStartHour(pole_config)))}},
        pole_config.order, user_id)

\* pole.py:438-536
check_order_condition(db, pole_config, group_id, current_time, user_id, faults) ==
    IF /\ "check_order_condition.cache" \notin faults
       /\ <<group_id, current_time.date>> \in DOMAIN db.poles_cache
    THEN OrderByCache(db.poles_cache[<<group_id, current_time.date>>],
                      pole_config, user_id)
    ELSE OrderByPoles(Pole_get_daily_poles(db, group_id, current_time.date, faults),
                      pole_config, user_id)

\* process_pole_attempt marking the type as claimed in the cache before it
\* checks the time and the slot order
process_pole_attempt_MarkFirst(db, pole_type, madrid_time, user_id, group_id, faults) ==
    LET pole_config == ALL_POLE_TYPES[pole_type]
        marked      == Pole_mark_pole_claimed(db, group_id, pole_type,
                                              madrid_time.date, user_id, faults)
    IN
    IF Pole_pole_exists(db, group_id, pole_type, madrid_time.date, faults)
    THEN [db |-> db, pole_data |-> None]
    ELSE IF /\ "time_condition" \in DOMAIN pole_config
            /\ ~check_time_condition(pole_config.time_condition, madrid_time)
    THEN [db |-> marked, pole_data |-> None]
    ELSE IF /\ "order" \in DOMAIN pole_config
            /\ ~check_order_condition(db, pole_config, group_id, madrid_time, user_id, faults)
    THEN [db |-> marked, pole_data |-> None]
    ELSE LET created == Pole_create(marked, user_id, group_id, pole_type,
                                    pole_config.points, madrid_time, faults)
         IN  [db |-> created.db, pole_data |-> created.pole_data]

\* pole.py:279-322  returns [db, pole_data]
process_pole_attempt(db, pole_type, madrid_time, user_id, group_id, faults) ==
    LET pole_config == ALL_POLE_TYPES[pole_type] IN
    IF Pole_pole_exists(db, group_id, pole_type, madrid_time.date, faults)
    THEN [db |-> db, pole_data |-> None]
    ELSE IF /\ "time_condition" \in DOMAIN pole_config
            /\ ~check_time_condition(pole_config.time_condition, madrid_time)
    THEN [db |-> db, pole_data |-> None]
    ELSE IF /\ "order" \in DOMAIN pole_config
            /\ ~check_order_condition(db, pole_config, group_id, madrid_time, user_id, faults)
    THEN [db |-> db, pole_data |-> None]
    ELSE LET created == Pole_create(db, user_id, group_id, pole_type,
                                    pole_config.points, madrid_time, faults)
         IN  [db |-> Pole_mark_pole_claimed(created.db, group_id, pole_type,
                                            madrid_time.date, user_id, faults),
              pole_data |-> created.pole_data]

(***************************************************************************)
(* The counter puzzle (models.py Pole.track_attempt, PoleMina;              *)
(* pole.py process_counter_based_pole).                                    *)
(***************************************************************************)
STRING_LENGTH == 20

MIN_REQUIRED_COUNT == 1

MAX_REQUIRED_COUNT == 10

MIN_MINA_POINTS == 1

MAX_MINA_POINTS == 10

FALLBACK_REQUIRED_COUNT == 5

FALLBACK_MASK_LENGTH == 24

\* models.py:565-569  outcomes of generate_random_string(length): strings over
\* A-Z0-9; the draws the model follows
generate_random_string(length) ==
    { [i \in 1..length |-> IF i % 2 = 1 THEN "A" ELSE "7"],
      [i \in 1..length |-> IF i % 3 = 1 THEN "Z" ELSE "0"] }

\* models.py:585  random.randint(1, 10)
RandomRequiredCount == MIN_REQUIRED_COUNT..MAX_REQUIRED_COUNT

\* pole.py:356  random.randint(1, 10), in units of 1/10000 point
RandomMinaPoints == {10000 * p : p \in MIN_MINA_POINTS..MAX_MINA_POINTS}

\* models.py:432-436  update_one, upsert=True, $set of the whole document
pole_counters_set(db, key, counter_doc) ==
    LET stored == [count |-> counter_doc.count,
                   user_attempts |-> counter_doc.user_attempts,
                   completed |-> counter_doc.completed]
    IN  [db EXCEPT !.pole_counters =
            IF key \in DOMAIN @ THEN [@ EXCEPT ![key] = stored]
            ELSE @ @@ (key :> stored)]

\* models.py:404-419  the stored counter (with its _id) or a new one (without)
LoadCounter(db, key) ==
    IF key \in DOMAIN db.pole_counters
    THEN [id |-> key,
          count |-> db.pole_counters[key].count,
          user_attempts |-> db.pole_counters[key].user_attempts,
          completed |-> db.pole_counters[key].completed]
    ELSE [id |-> NoId, count |-> 0, user_attempts |-> 0, completed |-> FALSE]

\* CountAttempt recording the attempt without raising the count
CountAttempt_NoIncrement(counter_doc) ==
    [counter_doc EXCEPT !.user_attempts = @ + 1]

\* models.py:424-429
CountAttempt(counter_doc) ==
    [counter_doc EXCEPT !.count = @ + 1, !.user_attempts = @ + 1]

\* models.py:442-449
OfflineCounter ==
    [id |-> NoId, count |-> 1, user_attempts |-> 1, completed |-> FALSE]

\* models.py:397-449  returns [db, counter]
Pole_track_attempt(db, group_id, pole_type, user_id, message_date, faults) ==
    LET key == <<group_id, pole_type, message_date.date>> IN
    IF "track_attempt.find" \in faults THEN [db |-> db, counter |-> OfflineCounter]
    ELSE LET counter_doc == LoadCounter(db, key) IN
         IF counter_doc.completed THEN [db |-> db, counter |-> counter_doc]
         ELSE IF "track_attempt.update" \in faults
              THEN [db |-> db, counter |-> OfflineCounter]
              ELSE [db |-> pole_counters_set(db, key, CountAttempt(counter_doc)),
                    counter |-> CountAttempt(counter_doc)]

\* pole.py:360-362  update_one({"_id": ...}, {"$set": {"completed": True}})
pole_counters_set_completed(db, id) ==
    [db EXCEPT !.pole_counters =
        IF id \in DOMAIN @ THEN [@ EXCEPT ![id].completed = TRUE] ELSE @]

\* models.py:587-596
NewMinaDoc(random_string, required_count) ==
    [random_string |-> random_string, required_count |-> required_count,
     revealed_positions |-> <<>>]

\* models.py:606-613
FallbackMinaDoc(random_string) ==
    NewMinaDoc(random_string, FALLBACK_REQUIRED_COUNT)

\* models.py:598  insert_one
pole_mina_insert_one(db, key, doc) ==
    [db EXCEPT !.pole_mina = @ @@ (key :> doc)]

\* models.py:571-613  returns [db, doc]; draw holds the random values of the call
PoleMina_get_or_create_daily_info(db, group_id, date, draw, faults) ==
    LET key == <<group_id, date>> IN
    IF "daily_info.find" \in faults
    THEN [db |-> db, doc |-> FallbackMinaDoc(draw.fallback_string)]
    ELSE IF key \in DOMAIN db.pole_mina
    THEN [db |-> db, doc |-> db.pole_mina[key]]
    ELSE IF "daily_info.insert" \in faults
    THEN [db |-> db, doc |-> FallbackMinaDoc(draw.fallback_string)]
    ELSE [db |-> pole_mina_insert_one(db, key,
                    NewMinaDoc(draw.random_string, draw.required_count)),
          doc |-> NewMinaDoc(draw.random_string, draw.required_count)]

\* RevealNext taking the highest unrevealed position instead of the lowest
RevealNext_Highest(random_string, revealed_positions) ==
    LET unrevealed_positions ==
            {i \in 0..(Len(random_string) - 1) :
                \A j \in 1..Len(revealed_positions) : revealed_positions[j] # i}
    IN  IF unrevealed_positions = {} THEN revealed_positions
        ELSE Append(revealed_positions,
                    CHOOSE x \in unrevealed_positions :
                        \A y \in unrevealed_positions : x >= y)

\* models.py:639-645  the list with the lowest unrevealed position appended
RevealNext(random_string, revealed_positions) ==
    LET unrevealed_positions ==
            {i \in 0..(Len(random_string) - 1) :
                \A j \in 1..Len(revealed_positions) : revealed_positions[j] # i}
    IN  IF unrevealed_positions = {} THEN revealed_positions
        ELSE Append(revealed_positions, Min(unrevealed_positions))

\* models.py:648-651  update_one, no upsert
pole_mina_set_revealed(db, key, revealed_positions) ==
    [db EXCEPT !.pole_mina =
        IF key \in DOMAIN @
        THEN [@ EXCEPT ![key].revealed_positions = revealed_positions]
        ELSE @]

\* models.py:621-659  returns [db, doc]; doc is None when the update raises
PoleMina_reveal_character(db, group_id, date, draw, faults) ==
    LET got      == PoleMina_get_or_create_daily_info(db, group_id, date, draw, faults)
        doc      == got.doc
        revealed == RevealNext(doc.random_string, doc.revealed_positions)
    IN  IF Len(doc.revealed_positions) >= Len(doc.random_string)
        THEN [db |-> got.db, doc |-> doc]
        ELSE IF revealed = doc.revealed_positions
        THEN [db |-> got.db, doc |-> doc]
        ELSE IF "reveal.update" \in faults
        THEN [db |-> got.db, doc |-> None]
        ELSE [db |-> pole_mina_set_revealed(got.db, <<group_id, date>>, revealed),
              doc |-> [doc EXCEPT !.revealed_positions = revealed]]

\* PoleMina_get_masked_string reading the revealed positions as counted
\* from 1
PoleMina_get_masked_string_FromOne(pole_mina_doc) ==
    IF pole_mina_doc = None THEN [i \in 1..FALLBACK_MASK_LENGTH |-> "?"]
    ELSE [i \in 1..Len(pole_mina_doc.random_string) |->
            IF \E j \in 1..Len(pole_mina_doc.revealed_positions) :
                   pole_mina_doc.revealed_positions[j] = i
            THEN pole_mina_doc.random_string[i]
            ELSE "?"]

\* models.py:661-678
PoleMina_get_masked_string(pole_mina_doc) ==
    IF pole_mina_doc = None THEN [i \in 1..FALLBACK_MASK_LENGTH |-> "?"]
    ELSE [i \in 1..Len(pole_mina_doc.random_string) |->
            IF \E j \in 1..Len(pole_mina_doc.revealed_positions) :
                   pole_mina_doc.revealed_positions[j] = i - 1
            THEN pole_mina_doc.random_string[i]
            ELSE "?"]

\* pole.py:385-389  the progress message, by its parts
ProgressMessage(pole_type, count, masked_string, remaining) ==
    [pole_type |-> pole_type, attempt |-> count,
     masked_string |-> masked_string, remaining |-> remaining]

\* pole.py:325-393  returns [db, pole_data, message, raised]; rnd holds the
\* random values drawn while the attempt is processed
process_counter_based_pole(db, pole_type, madrid_time, user_id, group_id, rnd, faults) ==
    LET info           == PoleMina_get_or_create_daily_info(
                              db, group_id, madrid_time.date, rnd.info, faults)
        required_count == IF pole_type = "Pole Mina" THEN info.doc.required_count
                          ELSE ALL_POLE_TYPES[pole_type].time_condition.counter
        db1            == IF pole_type = "Pole Mina" THEN info.db ELSE db
        tracked        == Pole_track_attempt(db1, group_id, pole_type, user_id,
                                             madrid_time, faults)
        counter        == tracked.counter
    IN  IF counter.count = required_count /\ ~counter.completed
        THEN IF pole_type = "Pole Mina"
             THEN LET created == Pole_create(tracked.db, user_id, group_id, pole_type,
                                             rnd.points, madrid_time, faults)
                  IN  IF "completed.update" \in faults
                      THEN [db |-> created.db, pole_data |-> None,
                            message |-> None, raised |-> TRUE]
                      ELSE [db |-> Pole_mark_pole_claimed(
                                      pole_counters_set_completed(created.db, counter.id),
                                      group_id, pole_type, madrid_time.date, user_id, faults),
                            pole_data |-> created.pole_data,
                            message |-> None, raised |-> FALSE]
             ELSE [db |-> tracked.db, pole_data |-> None,
                   message |-> None, raised |-> FALSE]
        ELSE LET remaining == required_count - counter.count IN
             IF pole_type = "Pole Mina"
             THEN LET shown == PoleMina_reveal_character(
                                  tracked.db, group_id, madrid_time.date, rnd.reveal, faults)
                  IN  [db |-> shown.db, pole_data |-> None,
                       message |-> ProgressMessage(pole_type, counter.count,
                                       PoleMina_get_masked_string(shown.doc), remaining),
                       raised |-> FALSE]
             ELSE [db |-> tracked.db, pole_data |-> None,
                   message |-> ProgressMessage(pole_type, counter.count, <<>>, remaining),
                   raised |-> FALSE]

(***************************************************************************)
(* Classification and dispatch (pole.py check_pole_message).               *)
(***************************************************************************)
\* pole.py:143-147
IsCounterBased(pole_type) ==
    /\ "time_condition" \in DOMAIN ALL_POLE_TYPES[pole_type]
    /\ ALL_POLE_TYPES[pole_type].time_condition.type = "counter_based"

\* pole.py:157-162, 182-187  pole_config.get("points", 0)
ReactionOnly(pole_type) ==
    [type |-> pole_type,
     points |-> IF "points" \in DOMAIN ALL_POLE_TYPES[pole_type]
                THEN ALL_POLE_TYPES[pole_type].points ELSE 0,
     response |-> None]

CLOWN_POLE_POINTS == 1

\* pole.py:203-212
ClownReaction ==
    [type |-> "clown_pole", points |-> CLOWN_POLE_POINTS, response |-> None]

\* pole.py:221-264
MessageReaction(reaction_type, message_text) ==
    LET config == MESSAGE_REACTIONS[reaction_type] IN
    [type |-> reaction_type,
     points |-> config.points,
     response |-> IF reaction_type = "dios_xd" /\ "capture_groups" \in DOMAIN config
                  THEN [text |-> message_text]
                  ELSE IF "response" \in DOMAIN config THEN [text |-> config.response]
                  ELSE None]

\* pole.py:153-165  what check_pole_message returns for a counter-based type
CounterOutcome(r, pole_type) ==
    IF r.pole_data # None /\ pole_type \in DOMAIN ADDITIONAL_POLE_TYPES
    THEN [db |-> r.db, pole_data |-> None, counter_message |-> None,
          reaction_data |-> ReactionOnly(pole_type), raised |-> r.raised]
    ELSE [db |-> r.db, pole_data |-> r.pole_data, counter_message |-> r.message,
          reaction_data |-> None, raised |-> r.raised]

\* PoleOutcome returning the reaction data next to the award data
PoleOutcome_AlsoReaction(r, pole_type) ==
    [db |-> r.db, pole_data |-> r.pole_data, counter_message |-> None,
     reaction_data |-> IF r.pole_data # None THEN ReactionOnly(pole_type) ELSE None,
     raised |-> FALSE]

\* pole.py:172-190  what check_pole_message returns for any other type
PoleOutcome(r, pole_type) ==
    LET is_main_pole == \/ pole_type \in DOMAIN POLE_TYPES
                        \/ pole_type \in DOMAIN TIME_SPECIFIC_POLES
        nothing      == [db |-> r.db, pole_data |-> None, counter_message |-> None,
                         reaction_data |-> None, raised |-> FALSE]
    IN  IF r.pole_data # None
        THEN IF is_main_pole
             THEN [nothing EXCEPT !.pole_data = r.pole_data]
             ELSE [nothing EXCEPT !.reaction_data = ReactionOnly(pole_type)]
        ELSE nothing

\* pole.py:132-276  the branches of check_pole_message, the text classified
Dispatch(db, pole_type, normalized_text, message_text, madrid_time, user_id, group_id, rnd, faults) ==
    LET nothing == [db |-> db, pole_data |-> None, counter_message |-> None,
                    reaction_data |-> None, raised |-> FALSE]
    IN  IF pole_type # ""
        THEN IF IsCounterBased(pole_type)
             THEN CounterOutcome(
                      process_counter_based_pole(db, pole_type, madrid_time,
                                                 user_id, group_id, rnd, faults),
                      pole_type)
             ELSE PoleOutcome(
                      process_pole_attempt(db, pole_type, madrid_time,
                                           user_id, group_id, faults),
                      pole_type)
        ELSE IF CLOWN_POLE_PATTERN(Strip(normalized_text))
        THEN [nothing EXCEPT
                !.db = Pole_create(db, user_id, group_id, "Clown Pole",
                                   CLOWN_POLE_POINTS, madrid_time, faults).db,
                !.reaction_data = ClownReaction]
        ELSE IF MatchReaction(normalized_text) # ""
        THEN [nothing EXCEPT
                !.reaction_data = MessageReaction(MatchReaction(normalized_text),
                                                  message_text)]
        ELSE nothing

\* pole.py:110-276  returns [db, pole_data, counter_message, reaction_data, raised]
check_pole_message(db, message_text, message_date, user_id, group_id, rnd, faults) ==
    Dispatch(db, MatchTrigger(Normalize(message_text)), Normalize(message_text),
             message_text, astimezone(message_date), user_id, group_id, rnd, faults)

(***************************************************************************)
(* The LLM availability flag (api_helpers.py).                             *)
(***************************************************************************)
OLLAMA_ENABLED == TRUE

\* check_llm_availability sending the test request whatever the flag says
check_llm_availability_Reprobe(llm_available, probe) ==
    IF ~OLLAMA_ENABLED THEN [llm_available |-> "False", result |-> FALSE]
    ELSE IF probe = "ok" THEN [llm_available |-> "True", result |-> TRUE]
    ELSE [llm_available |-> "False", result |-> FALSE]

\* api_helpers.py:18-61  probe is the outcome of the test request;
\* returns [llm_available, result]
check_llm_availability(llm_available, probe) ==
    IF ~OLLAMA_ENABLED THEN [llm_available |-> "False", result |-> FALSE]
    ELSE IF llm_available = "False" THEN [llm_available |-> "False", result |-> FALSE]
    ELSE IF probe = "ok" THEN [llm_available |-> "True", result |-> TRUE]
    ELSE [llm_available |-> "False", result |-> FALSE]

(***************************************************************************)
(* The message handler (handlers.py message_handler).  An update is        *)
(* [text, date, user_id, is_bot, chat_id, chat_type, llm_probe].           *)
(***************************************************************************)
\* handlers.py:198-246  the replies sent for what check_pole_message returned
GroupReply(r) ==
    LET quiet == [pole_data |-> None, counter_message |-> None,
                  reaction_data |-> None, reply |-> "none"]
        out   == [quiet EXCEPT !.pole_data = r.pole_data,
                               !.counter_message = r.counter_message,
                               !.reaction_data = r.reaction_data]
    IN  IF r.raised THEN [quiet EXCEPT !.reply = "error"]
        ELSE IF r.pole_data # None THEN [out EXCEPT !.reply = "pole"]
        ELSE IF r.counter_message # None THEN [out EXCEPT !.reply = "counter"]
        ELSE IF r.reaction_data # None
        THEN [out EXCEPT !.reply = IF r.reaction_data.response # None
                                   THEN "reaction+text" ELSE "reaction"]
        ELSE out

\* handlers.py:193-246  a message in a group, the user and the group registered
GroupMessage(r, llm_available) ==
    [db |-> r.db, llm_available |-> llm_available, out |-> GroupReply(r)]

\* handlers.py:248-257  a message in a private chat, the user registered
PrivateMessage(db, c) ==
    [db |-> db, llm_available |-> c.llm_available,
     out |-> [pole_data |-> None, counter_message |-> None, reaction_data |-> None,
              reply |-> IF c.result THEN "use /ask" ELSE "llm unavailable"]]

\* AfterUser processing the text as a claim in a chat of any type
AfterUser_AnyChat(db, llm_available, update, rnd, faults) ==
    GroupMessage(
        check_pole_message(Group_create_or_update(db, update.chat_id, faults),
                           update.text, update.date, update.user_id,
                           update.chat_id, rnd, faults),
        llm_available)

\* handlers.py:189-257  after User.create_or_update
AfterUser(db, llm_available, update, rnd, faults) ==
    IF update.chat_type \in {"group", "supergroup"}
    THEN GroupMessage(
             check_pole_message(Group_create_or_update(db, update.chat_id, faults),
                                update.text, update.date, update.user_id,
                                update.chat_id, rnd, faults),
             llm_available)
    ELSE IF update.chat_type = "private"
    THEN PrivateMessage(db, check_llm_availability(llm_available, update.llm_probe))
    ELSE [db |-> db, llm_available |-> llm_available,
          out |-> [pole_data |-> None, counter_message |-> None,
                   reaction_data |-> None, reply |-> "none"]]

\* handlers.py:166-262  returns [db, llm_available, out]
message_handler(db, llm_available, update, rnd, faults) ==
    AfterUser(User_create_or_update(db, update.user_id, update.is_bot, faults),
              llm_available, update, rnd, faults)

(***************************************************************************)
(* Private chats and the LLM commands (handlers.py start_command,          *)
(* help_command, ask_command; api_helpers.py query_llm).  A test request   *)
(* or a query to the LLM ends "ok", with a requests exception ("down") or  *)
(* with another exception ("broken").                                      *)
(***************************************************************************)
LlmOutcomes == {"ok", "down", "broken"}

\* api_helpers.py:63-117  returns [llm_available, answer]
query_llm(llm_available, probe, request) ==
    LET checked == IF llm_available = "None"
                   THEN check_llm_availability(llm_available, probe).llm_available
                   ELSE llm_available
    IN  IF checked # "True"
        THEN [llm_available |-> checked, answer |-> "fallback"]
        ELSE IF request = "ok"
        THEN [llm_available |-> checked, answer |-> "answer"]
        ELSE IF request = "down"
        THEN [llm_available |-> "False", answer |-> "could not connect"]
        ELSE [llm_available |-> checked, answer |-> "unexpected error"]

\* the answer of a command, in the shape of the handler's answers
CommandReply(text) ==
    [pole_data |-> None, counter_message |-> None, reaction_data |-> None,
     reply |-> text]

\* handlers.py:13-42  returns [llm_available, out]
start_command(llm_available, probe) ==
    LET checked == check_llm_availability(llm_available, probe) IN
    [llm_available |-> checked.llm_available,
     out |-> CommandReply(IF checked.result THEN "welcome, /ask" ELSE "welcome, no llm")]

\* handlers.py:45-76
help_command(llm_available, probe) ==
    LET checked == check_llm_availability(llm_available, probe) IN
    [llm_available |-> checked.llm_available,
     out |-> CommandReply(IF checked.result THEN "help, /ask" ELSE "help")]

\* handlers.py:79-104  args is the question, <<>> when there is none
ask_command(llm_available, args, probe, request) ==
    LET checked  == check_llm_availability(llm_available, probe)
        answered == query_llm(checked.llm_available, probe, request)
    IN  IF ~checked.result
        THEN [llm_available |-> checked.llm_available,
              out |-> CommandReply("llm unavailable")]
        ELSE IF args = <<>>
        THEN [llm_available |-> checked.llm_available, out |-> CommandReply("usage")]
        ELSE [llm_available |-> answered.llm_available,
              out |-> CommandReply(answered.answer)]

(***************************************************************************)
(* State.                                                                  *)
(***************************************************************************)
VARIABLES
    users,           \* the collections of the store
    user_poles,
    groups,
    poles,
    poles_cache,
    pole_counters,
    pole_mina,
    llm_available,   \* api_helpers._llm_available: "None", "True" or "False"
    now,             \* the date of the last update handled
    last,            \* what the handler answered to it
    procs,           \* the handlers in flight when updates are processed concurrently
    startup          \* the import of config.py and pole.py and the start of main

vars == <<users, user_poles, groups, poles, poles_cache, pole_counters, pole_mina,
          llm_available, now, last, procs, startup>>

store == <<users, user_poles, groups, poles, poles_cache, pole_counters, pole_mina>>

DB == [users |-> users, user_poles |-> user_poles, groups |-> groups,
       poles |-> poles, poles_cache |-> poles_cache,
       pole_counters |-> pole_counters, pole_mina |-> pole_mina]

SetStore(db) ==
    /\ users' = db.users
    /\ user_poles' = db.user_poles
    /\ groups' = db.groups
    /\ poles' = db.poles
    /\ poles_cache' = db.poles_cache
    /\ pole_counters' = db.pole_counters
    /\ pole_mina' = db.pole_mina

(***************************************************************************)
(* Bounds and the updates the environment sends.                           *)
(***************************************************************************)
MaxPoles == 3

MaxAttempts == 22

\* Telegram ids: users are positive, group chats negative
UserIds == {1, 2, 3}

GroupIds == {-1, -2}

ProcIds == {1, 2}

NoOut ==
    [pole_data |-> None, counter_message |-> None, reaction_data |-> None,
     reply |-> "init"]

GroupUpdates(texts, dates, senders, chats) ==
    {[text |-> t, date |-> d, user_id |-> u, is_bot |-> FALSE,
      chat_id |-> c, chat_type |-> "supergroup", llm_probe |-> "ok"] :
        t \in texts, d \in dates, u \in senders, c \in chats}

NoDraw == [random_string |-> <<>>, required_count |-> 0, fallback_string |-> <<>>]

\* the random values one handling of update can draw in store state db
Draws(db, update, faults) ==
    LET madrid_time == astimezone(update.date)
        pole_type   == MatchTrigger(Normalize(update.text))
        is_mina     == /\ update.chat_type \in {"group", "supergroup"}
                       /\ pole_type = "Pole Mina"
        mina_key    == <<update.chat_id, madrid_time.date>>
        counter_key == <<update.chat_id, pole_type, madrid_time.date>>
        strings     == generate_random_string(STRING_LENGTH)
        fresh       == [random_string : strings, required_count : RandomRequiredCount,
                        fallback_string : IF faults = {} THEN {<<>>} ELSE strings]
        kept        == [random_string : {<<>>}, required_count : {0},
                        fallback_string : IF faults = {} THEN {<<>>} ELSE strings]
        completed   == /\ counter_key \in DOMAIN db.pole_counters
                       /\ db.pole_counters[counter_key].completed
    IN  IF ~is_mina THEN {[info |-> NoDraw, reveal |-> NoDraw, points |-> 0]}
        ELSE [info   : IF mina_key \in DOMAIN db.pole_mina THEN kept ELSE fresh,
              reveal : IF faults = {} THEN {NoDraw} ELSE fresh,
              points : IF completed THEN {0} ELSE RandomMinaPoints]

(***************************************************************************)
(* Updates handled one at a time: the whole of message_handler is one step.*)
(***************************************************************************)
Idle == [pc |-> "idle"]

\* config.py:185-202, pole.py:24-36, bot.py:22-67  the bot started with the
\* catalog of config.py: every pattern compiled, the token set, polling
Started ==
    [pc |-> "running", next |-> 1, invalid |-> {}, token |-> TRUE,
     triggers |-> [i \in 1..Len(COMPILED_TRIGGERS) |-> i],
     reactions |-> [i \in 1..Len(COMPILED_REACTIONS) |-> i]]

Init ==
    /\ users = <<>>
    /\ user_poles = <<>>
    /\ groups = <<>>
    /\ poles = <<>>
    /\ poles_cache = <<>>
    /\ pole_counters = <<>>
    /\ pole_mina = <<>>
    /\ llm_available = "None"
    /\ now = 0
    /\ last = NoOut
    /\ procs = [p \in ProcIds |-> Idle]
    /\ startup = Started

\* Telegram delivers the updates in the order of their dates
InOrder(update) == update.date >= now

\* users and groups are numbered in the order of their first message
Newcomer(update) ==
    /\ \/ update.user_id \in DOMAIN users
       \/ update.user_id = Cardinality(DOMAIN users) + 1
    /\ \/ update.chat_type = "private"
       \/ update.chat_id \in DOMAIN groups
       \/ update.chat_id = 0 - (Cardinality(DOMAIN groups) + 1)

HandleMessage(update, faults) ==
    /\ InOrder(update)
    /\ Newcomer(update)
    /\ \E rnd \in Draws(DB, update, faults) :
          LET r == message_handler(DB, llm_available, update, rnd, faults) IN
          /\ SetStore(r.db)
          /\ llm_available' = r.llm_available
          /\ now' = update.date
          /\ last' = r.out
    /\ UNCHANGED <<procs, startup>>

\* the instant (UTC minutes) at which Madrid clocks show hour:minute of day
MadridInstant(day, hour, minute) ==
    (day * 24 + hour) * 60 + minute - MADRID_UTC_OFFSET

Day1Night == MadridInstant(1, 0, 5)

Day1Noon == MadridInstant(1, 13, 30)

Day2Night == MadridInstant(2, 0, 5)

RaceTexts ==
    { <<"pole">>, <<"", "Subpole">>, <<"subsubpole">>,
      <<"pole", "andaluza">>, <<"pole", "canaria">>, <<"fail">> }

\* the races of one group on one day, and a claim in another group and on
\* another day
RaceUpdates ==
    GroupUpdates(RaceTexts, {Day1Night, Day1Noon}, UserIds, {-1})
        \cup GroupUpdates({<<"pole">>}, {Day2Night}, UserIds, {-1})
        \cup GroupUpdates({<<"pole">>}, {Day1Noon}, UserIds, {-2})

Next ==
    \E update \in RaceUpdates :
        /\ Len(poles) < MaxPoles
        /\ HandleMessage(update, {})

Spec == Init /\ [][Next]_vars

(***************************************************************************)
(* What the claims speak about.                                            *)
(***************************************************************************)
NonCounterTypes == {t \in DOMAIN ALL_POLE_TYPES : ~IsCounterBased(t)}

OrderedTypes == {t \in DOMAIN ALL_POLE_TYPES : "order" \in DOMAIN ALL_POLE_TYPES[t]}

\* the grouping hours of the ordered types: one family per hour
FamilyHours == {FamilyStartHour(ALL_POLE_TYPES[t]) : t \in OrderedTypes}

\* the positions in poles of the ClaimRecords of (group, type, day)
RecordsOf(g, t, d) ==
    {i \in 1..Len(poles) :
        poles[i].group_id = g /\ poles[i].type = t /\ poles[i].date = d}

\* the ClaimRecords of (group, family, day), in the order they were granted
GrantedSlots(g, h, d) ==
    SelectSeq(poles, LAMBDA p :
        /\ p.group_id = g
        /\ p.date = d
        /\ p.type \in OrderedTypes
        /\ FamilyStartHour(ALL_POLE_TYPES[p.type]) = h)

SlotHolders(g, h, d) ==
    {GrantedSlots(g, h, d)[i].user_id : i \in 1..Len(GrantedSlots(g, h, d))}

DaysSeen == {poles[i].date : i \in 1..Len(poles)}

\* the claim type an update's text triggers ("" when none) and its Madrid day
TypeOf(update) == MatchTrigger(Normalize(update.text))

DayOf(update) == astimezone(update.date).date

\* an update the environment may send next
Admissible(update) == InOrder(update) /\ Newcomer(update)

\* what handling update in the current state gives, the store answering
Outcomes(update) ==
    {message_handler(DB, llm_available, update, rnd, {}) :
        rnd \in Draws(DB, update, {})}

Awarded(r) == r.out.pole_data # None \/ r.db.poles # poles

(***************************************************************************)
(* C1: with updates handled one at a time and the store answering, there   *)
(* is at most one ClaimRecord for every (group, non-counter claim type,    *)
(* Madrid day), and a message with the trigger text of a type already      *)
(* claimed that day in that group is not awarded, whoever sends it.        *)
(***************************************************************************)
C1_OncePerDay ==
    /\ \A i, j \in 1..Len(poles) :
          /\ poles[i].type \in NonCounterTypes
          /\ poles[i].type = poles[j].type
          /\ poles[i].group_id = poles[j].group_id
          /\ poles[i].date = poles[j].date
          => i = j
    /\ \A update \in RaceUpdates :
          /\ Admissible(update)
          /\ TypeOf(update) \in NonCounterTypes
          /\ RecordsOf(update.chat_id, TypeOf(update), DayOf(update)) # {}
          => \A r \in Outcomes(update) :
                /\ r.db.poles = poles
                /\ r.db.user_poles = user_poles
                /\ r.out.pole_data = None
                /\ r.out.reaction_data = None

\* Fracapole was claimed, another user has sent a message since and nothing
\* more was awarded
C1_Witness ==
    /\ Len(poles) = 1
    /\ poles[1].type = "Fracapole"
    /\ poles[1].created_at.hour = 0
    /\ now = Day1Noon
    /\ last.reply = "none"
    /\ DOMAIN users = {1, 2}
    /\ \E update \in RaceUpdates :
          /\ TypeOf(update) = "Fracapole"
          /\ update.user_id # poles[1].user_id
          /\ Admissible(update)

(***************************************************************************)
(* C2: a claim for a type with slot number k by user U in group G on day D *)
(* that passes the already-claimed and time checks is awarded iff exactly  *)
(* k-1 slots of its family are granted for (G, D) and U holds none; on an  *)
(* empty day slot 1 gives 10 points, then slot 2 from another user 5       *)
(* points, and a slot sent before the lower slots are filled is rejected.  *)
(***************************************************************************)
C2_SlotOrder ==
    \A update \in RaceUpdates :
        LET t  == TypeOf(update)
            g  == update.chat_id
            d  == DayOf(update)
            h  == FamilyStartHour(ALL_POLE_TYPES[t])
            k  == ALL_POLE_TYPES[t].order
        IN  /\ Admissible(update)
            /\ t \in OrderedTypes
            /\ RecordsOf(g, t, d) = {}
            /\ check_time_condition(ALL_POLE_TYPES[t].time_condition,
                                    astimezone(update.date))
            => \A r \in Outcomes(update) :
                  /\ Awarded(r)
                        <=> /\ Len(GrantedSlots(g, h, d)) = k - 1
                            /\ update.user_id \notin SlotHolders(g, h, d)
                  /\ Awarded(r) =>
                        /\ r.out.pole_data.user_id = update.user_id
                        /\ r.out.pole_data.type = t
                        /\ r.out.pole_data.points = ALL_POLE_TYPES[t].points
                        /\ r.db.poles = Append(poles, r.out.pole_data)
                  /\ (t = "Pole" /\ Awarded(r)) => r.out.pole_data.points = 100000
                  /\ (t = "Subpole" /\ Awarded(r)) => r.out.pole_data.points = 50000

\* slot 1 then slot 2 were granted to two users, and a third user's message
\* was then rejected
C2_Witness ==
    /\ Len(poles) = 2
    /\ poles[1].type = "Pole" /\ poles[1].points = 100000
    /\ poles[2].type = "Subpole" /\ poles[2].points = 50000
    /\ poles[1].group_id = poles[2].group_id
    /\ poles[1].date = poles[2].date
    /\ poles[1].user_id # poles[2].user_id
    /\ DOMAIN users = UserIds
    /\ last.reply = "none"

(***************************************************************************)
(* C3: with updates handled one at a time, for every (group, family, day)  *)
(* the granted slots are exactly 1..m for some m in 0..3, granted in       *)
(* increasing order, and no user holds two of them.                        *)
(***************************************************************************)
C3_ContiguousSlots ==
    \A g \in GroupIds, h \in FamilyHours, d \in DaysSeen :
        LET slots == GrantedSlots(g, h, d) IN
        /\ Len(slots) <= 3
        /\ \A i \in 1..Len(slots) : ALL_POLE_TYPES[slots[i].type].order = i
        /\ \A i, j \in 1..Len(slots) :
              slots[i].user_id = slots[j].user_id => i = j

\* three slots of one family are granted
C3_Witness ==
    \E g \in GroupIds, h \in FamilyHours, d \in DaysSeen :
        Len(GrantedSlots(g, h, d)) = 3

(***************************************************************************)
(* The counter puzzle on its own: Pole Mina attempts of one group on one   *)
(* day, handled one at a time with the store answering.                    *)
(***************************************************************************)
MinaSenders == {1, 2}

MinaTexts == {<<"Pole", "MINA", "">>}

MinaUpdates == GroupUpdates(MinaTexts, {Day1Noon}, MinaSenders, {-1})

\* the attempts counted so far for the puzzle of (group g, day d)
StoredCount(g, d) ==
    IF <<g, "Pole Mina", d>> \in DOMAIN pole_counters
    THEN pole_counters[<<g, "Pole Mina", d>>].count
    ELSE 0

NextMina ==
    \E update \in MinaUpdates :
        /\ StoredCount(update.chat_id, DayOf(update)) < MaxAttempts
        /\ HandleMessage(update, {})

SpecMina == Init /\ [][NextMina]_vars

\* the puzzle of (g, d) was completed: its ClaimRecord exists
PuzzleCompleted(g, d) == RecordsOf(g, "Pole Mina", d) # {}

\* the stored counter of (g, d) carries completed = TRUE
CounterCompleted(g, d) ==
    /\ <<g, "Pole Mina", d>> \in DOMAIN pole_counters
    /\ pole_counters[<<g, "Pole Mina", d>>].completed

\* the positions revealed so far for (g, d), as a set
RevealedSet(doc) ==
    {doc.revealed_positions[i] : i \in 1..Len(doc.revealed_positions)}

\* list a is an initial part of list b
IsPrefix(a, b) == Len(a) <= Len(b) /\ \A i \in 1..Len(a) : a[i] = b[i]

(***************************************************************************)
(* C5: attempts at Pole Mina handled one at a time, the day's required     *)
(* count being R: the n-th attempt, n in 1..R-1, returns a progress        *)
(* message with attempt number n and remaining R - n and awards nothing;   *)
(* the R-th attempt creates exactly one ClaimRecord for the attempting     *)
(* user with 1..10 points and returns no progress message.                 *)
(***************************************************************************)
C5_CounterProgress ==
    \A update \in MinaUpdates :
        Admissible(update) =>
        \A r \in Outcomes(update) :
            LET g == update.chat_id
                d == DayOf(update)
                n == StoredCount(g, d) + 1
                R == r.db.pole_mina[<<g, d>>].required_count
            IN  /\ n < R =>
                    /\ r.out.counter_message # None
                    /\ r.out.counter_message.attempt = n
                    /\ r.out.counter_message.remaining = R - n
                    /\ r.out.pole_data = None
                    /\ r.db.poles = poles
                    /\ r.db.user_poles = user_poles
                /\ n = R =>
                    /\ r.out.counter_message = None
                    /\ r.out.pole_data # None
                    /\ r.db.poles = Append(poles, r.out.pole_data)
                    /\ r.out.pole_data.user_id = update.user_id
                    /\ r.out.pole_data.group_id = g
                    /\ r.out.pole_data.type = "Pole Mina"
                    /\ r.out.pole_data.points \in {10000 * p : p \in 1..10}

\* nine progress messages were followed by the award of the tenth attempt
C5_Witness ==
    /\ <<-1, 1>> \in DOMAIN pole_mina
    /\ pole_mina[<<-1, 1>>].required_count = 10
    /\ StoredCount(-1, 1) = 10
    /\ Len(pole_mina[<<-1, 1>>].revealed_positions) = 9
    /\ Len(poles) = 1
    /\ last.reply = "pole"
    /\ last.pole_data.type = "Pole Mina"
    /\ last.pole_data.points = 70000

(***************************************************************************)
(* C6: an attempt at Pole Mina arriving after the puzzle was completed     *)
(* that day (the stored counter says completed) is ignored: the counter    *)
(* and the puzzle stay as they are (no further position is revealed),      *)
(* nothing is awarded and no message is sent to the chat.                  *)
(***************************************************************************)
C6_IgnoredAfterCompletion ==
    \A update \in MinaUpdates :
        Admissible(update) /\ CounterCompleted(update.chat_id, DayOf(update)) =>
        \A r \in Outcomes(update) :
            /\ r.db.pole_counters = pole_counters
            /\ r.db.pole_mina = pole_mina
            /\ r.db.poles = poles
            /\ r.out.pole_data = None
            /\ r.out.counter_message = None
            /\ r.out.reply = "none"

(***************************************************************************)
(* C8: for every required count R in 1..10, R = 1 included, the stored     *)
(* counter has completed = TRUE once the awarding attempt has finished,    *)
(* and completed never returns to FALSE.                                   *)
(***************************************************************************)
C8_CompletedOneWay ==
    /\ \A g \in GroupIds, d \in DaysSeen :
          PuzzleCompleted(g, d) =>
              CounterCompleted(g, d)
    /\ \A update \in MinaUpdates :
          Admissible(update) =>
          \A r \in Outcomes(update) :
              \A key \in DOMAIN pole_counters :
                  pole_counters[key].completed => r.db.pole_counters[key].completed

(***************************************************************************)
(* C10: with attempts handled one at a time, the revealed positions of a   *)
(* puzzle are always a prefix {0..k-1} of the secret's indices, grow by at *)
(* most one position per attempt, never shrink, and stay as they are once  *)
(* all 20 positions are revealed.                                          *)
(***************************************************************************)
C10_RevealedPrefix ==
    /\ \A key \in DOMAIN pole_mina :
          /\ RevealedSet(pole_mina[key]) = 0..(Len(pole_mina[key].revealed_positions) - 1)
          /\ Len(pole_mina[key].revealed_positions) <= 20
    /\ \A update \in MinaUpdates :
          Admissible(update) =>
          \A r \in Outcomes(update) :
              \A key \in DOMAIN pole_mina :
                  LET old == pole_mina[key].revealed_positions
                      new == r.db.pole_mina[key].revealed_positions
                  IN  /\ IsPrefix(old, new)
                      /\ Len(new) <= Len(old) + 1
                      /\ Len(old) = 20 => new = old

\* all 20 positions are revealed and one more attempt has been handled
C10_Witness ==
    /\ <<-1, 1>> \in DOMAIN pole_mina
    /\ pole_mina[<<-1, 1>>].required_count = 1
    /\ Len(pole_mina[<<-1, 1>>].revealed_positions) = 20
    /\ StoredCount(-1, 1) = 22
    /\ last.reply = "counter"
    /\ \A i \in 1..20 : last.counter_message.masked_string[i] # "?"

(***************************************************************************)
(* Updates processed concurrently: every handler in flight takes one store *)
(* call per step, and the steps of the handlers interleave.  The handlers  *)
(* share nothing but the store.  Only messages that trigger a claim type   *)
(* are followed, each handler's position being the store call it makes     *)
(* next.                                                                   *)
(***************************************************************************)
MaxHandled == 1

ConcTexts == {<<"pole">>, <<"pole", "andaluza">>, <<"fail">>, <<"pole", "mina">>}

ConcUpdates == GroupUpdates(ConcTexts, {Day1Noon}, {1, 2}, {-1})

\* the updates handler p has finished, and the attempts it has counted
Handled(p) == IF "handled" \in DOMAIN procs[p] THEN procs[p].handled ELSE 0

Tracked(p) == IF "tracked" \in DOMAIN procs[p] THEN procs[p].tracked ELSE 0

\* one step of handler p: the store becomes db, p's locals rec, the reply out
Step(p, db, rec, out) ==
    /\ SetStore(db)
    /\ procs' = [procs EXCEPT ![p] = rec]
    /\ last' = out
    /\ UNCHANGED <<llm_available, now, startup>>

\* handler p at rest again
Rest(p) == [pc |-> "idle", handled |-> Handled(p) + 1, tracked |-> Tracked(p)]

\* handlers.py:198-246  the reply when nothing was awarded
NoAward ==
    GroupReply([pole_data |-> None, counter_message |-> None,
                reaction_data |-> None, raised |-> FALSE])

\* pole.py:168-190, handlers.py:198-246  the reply for an awarded claim
AwardReply(pole_type, pole_data) ==
    IF IsCounterBased(pole_type)
    THEN GroupReply(CounterOutcome([db |-> DB, pole_data |-> pole_data,
                                    message |-> None, raised |-> FALSE], pole_type))
    ELSE GroupReply(PoleOutcome([db |-> DB, pole_data |-> pole_data], pole_type))

\* pole.py:372-393, handlers.py:211-214  the reply with a progress message
ProgressReply(pole_type, counter, required_count, doc) ==
    GroupReply(CounterOutcome(
        [db |-> DB, pole_data |-> None, raised |-> FALSE,
         message |-> ProgressMessage(pole_type, counter.count,
                         PoleMina_get_masked_string(doc),
                         required_count - counter.count)],
        pole_type))

\* handlers.py:166-190  an update reaches a free handler
Receive(p, update) ==
    /\ procs[p].pc = "idle"
    /\ Handled(p) < MaxHandled
    /\ InOrder(update)
    /\ MatchTrigger(Normalize(update.text)) # ""
    /\ procs' = [procs EXCEPT ![p] =
          [pc |-> "User.create_or_update", handled |-> Handled(p),
           tracked |-> Tracked(p), update |-> update,
           pole_type |-> MatchTrigger(Normalize(update.text)),
           madrid_time |-> astimezone(update.date),
           info |-> None, pole_mina_doc |-> None, counter |-> None,
           pole_data |-> None, points |-> 0]]
    /\ now' = update.date
    /\ UNCHANGED <<store, llm_available, last, startup>>

\* handlers.py:190
RegisterUser(p) ==
    /\ procs[p].pc = "User.create_or_update"
    /\ Step(p, User_create_or_update(DB, procs[p].update.user_id,
                                     procs[p].update.is_bot, {}),
            [procs[p] EXCEPT !.pc = "Group.create_or_update"], last)

\* handlers.py:194, pole.py:134-170
RegisterGroup(p) ==
    /\ procs[p].pc = "Group.create_or_update"
    /\ Step(p, Group_create_or_update(DB, procs[p].update.chat_id, {}),
            [procs[p] EXCEPT !.pc = IF IsCounterBased(procs[p].pole_type)
                                    THEN "daily_info.find"
                                    ELSE "pole_exists.cache"],
            last)

\* handler p moves on to store call pc, or answers that nothing was awarded
Proceed(p, goes_on, pc) ==
    IF goes_on
    THEN Step(p, DB, [procs[p] EXCEPT !.pc = pc], last)
    ELSE Step(p, DB, Rest(p), NoAward)

\* models.py:457-466  Pole.pole_exists: the claimed-types cache
CacheLookup(p) ==
    /\ procs[p].pc = "pole_exists.cache"
    /\ Proceed(p, ~cache_has_claimed(DB, procs[p].update.chat_id, procs[p].pole_type,
                                     procs[p].madrid_time.date),
               "pole_exists.poles")

\* pole.py:298-306  the time condition, and whether the order is checked
AfterExists(pole_type, madrid_time) ==
    IF /\ "time_condition" \in DOMAIN ALL_POLE_TYPES[pole_type]
       /\ ~check_time_condition(ALL_POLE_TYPES[pole_type].time_condition, madrid_time)
    THEN "idle"
    ELSE IF "order" \in DOMAIN ALL_POLE_TYPES[pole_type]
    THEN "check_order_condition.cache"
    ELSE "Pole.create.insert"

\* models.py:469-474, pole.py:294-312  Pole.pole_exists: the ClaimRecords
PolesLookup(p) ==
    /\ procs[p].pc = "pole_exists.poles"
    /\ Proceed(p, /\ ~poles_has(DB, procs[p].update.chat_id, procs[p].pole_type,
                                procs[p].madrid_time.date)
                  /\ AfterExists(procs[p].pole_type, procs[p].madrid_time) # "idle",
               AfterExists(procs[p].pole_type, procs[p].madrid_time))

\* pole.py:460-501  check_order_condition: the claimed-types cache
OrderFromCache(p) ==
    /\ procs[p].pc = "check_order_condition.cache"
    /\ IF <<procs[p].update.chat_id, procs[p].madrid_time.date>> \in DOMAIN poles_cache
       THEN Proceed(p, OrderByCache(poles_cache[<<procs[p].update.chat_id,
                                                  procs[p].madrid_time.date>>],
                                    ALL_POLE_TYPES[procs[p].pole_type],
                                    procs[p].update.user_id),
                    "Pole.create.insert")
       ELSE Proceed(p, TRUE, "get_daily_poles")

\* pole.py:506-536  check_order_condition: the day's ClaimRecords
OrderFromPoles(p) ==
    /\ procs[p].pc = "get_daily_poles"
    /\ Proceed(p, OrderByPoles(Pole_get_daily_poles(DB, procs[p].update.chat_id,
                                                    procs[p].madrid_time.date, {}),
                               ALL_POLE_TYPES[procs[p].pole_type],
                               procs[p].update.user_id),
               "Pole.create.insert")

\* the points of the claim handler p is awarding
AwardPoints(p) ==
    IF IsCounterBased(procs[p].pole_type) THEN procs[p].points
    ELSE ALL_POLE_TYPES[procs[p].pole_type].points

\* models.py:368-384  Pole.create: insert_one
InsertPole(p) ==
    /\ procs[p].pc = "Pole.create.insert"
    /\ Step(p, poles_insert_one(DB, NewPoleData(procs[p].update.user_id,
                                    procs[p].update.chat_id, procs[p].pole_type,
                                    AwardPoints(p), procs[p].madrid_time)),
            [procs[p] EXCEPT
                !.pc = "update_points.users",
                !.pole_data = NewPoleData(procs[p].update.user_id,
                                  procs[p].update.chat_id, procs[p].pole_type,
                                  AwardPoints(p), procs[p].madrid_time)],
            last)

\* models.py:273-280  User.update_points: users
IncUser(p) ==
    /\ procs[p].pc = "update_points.users"
    /\ Step(p, users_inc(DB, procs[p].update.user_id, AwardPoints(p)),
            [procs[p] EXCEPT !.pc = "update_points.user_poles"], last)

\* models.py:282-297  User.update_points: user_poles
IncUserPoles(p) ==
    /\ procs[p].pc = "update_points.user_poles"
    /\ Step(p, user_poles_inc(DB, procs[p].update.user_id, procs[p].update.chat_id,
                              AwardPoints(p)),
            [procs[p] EXCEPT !.pc = "increment_pole_count"], last)

\* models.py:346-348  Group.increment_pole_count
IncGroup(p) ==
    /\ procs[p].pc = "increment_pole_count"
    /\ Step(p, Group_increment_pole_count(DB, procs[p].update.chat_id, {}),
            [procs[p] EXCEPT !.pc = IF IsCounterBased(procs[p].pole_type)
                                    THEN "completed.update"
                                    ELSE "mark_pole_claimed"],
            last)

\* models.py:544-555  Pole.mark_pole_claimed, then the reply
MarkClaimed(p) ==
    /\ procs[p].pc = "mark_pole_claimed"
    /\ Step(p, poles_cache_set(DB, procs[p].update.chat_id, procs[p].pole_type,
                               procs[p].madrid_time.date, procs[p].update.user_id),
            Rest(p), AwardReply(procs[p].pole_type, procs[p].pole_data))

\* the keys of the puzzle and of the counter handler p works on
MinaKeyOf(p) == <<procs[p].update.chat_id, procs[p].madrid_time.date>>

CounterKeyOf(p) ==
    <<procs[p].update.chat_id, procs[p].pole_type, procs[p].madrid_time.date>>

\* models.py:578-596  get_or_create_daily_info: find_one, else a new document
MinaFind(p) ==
    /\ procs[p].pc = "daily_info.find"
    /\ IF MinaKeyOf(p) \in DOMAIN pole_mina
       THEN Step(p, DB, [procs[p] EXCEPT !.pc = "track_attempt.find",
                                         !.info = pole_mina[MinaKeyOf(p)]], last)
       ELSE \E random_string \in generate_random_string(STRING_LENGTH),
               required_count \in RandomRequiredCount :
               Step(p, DB, [procs[p] EXCEPT
                               !.pc = "daily_info.insert",
                               !.info = NewMinaDoc(random_string, required_count)],
                    last)

\* models.py:598-614  insert_one; the unique index on (group_id, date) makes it
\* raise when the document exists by now, and the fallback is returned
MinaInsert(p) ==
    /\ procs[p].pc = "daily_info.insert"
    /\ IF MinaKeyOf(p) \notin DOMAIN pole_mina
       THEN Step(p, pole_mina_insert_one(DB, MinaKeyOf(p), procs[p].info),
                 [procs[p] EXCEPT !.pc = "track_attempt.find"], last)
       ELSE \E random_string \in generate_random_string(STRING_LENGTH) :
               Step(p, DB, [procs[p] EXCEPT !.pc = "track_attempt.find",
                                            !.info = FallbackMinaDoc(random_string)],
                    last)

\* models.py:404-429  track_attempt: find_one
TrackFind(p) ==
    /\ procs[p].pc = "track_attempt.find"
    /\ IF LoadCounter(DB, CounterKeyOf(p)).completed
       THEN Step(p, DB, [procs[p] EXCEPT !.pc = "reveal.find",
                                         !.counter = LoadCounter(DB, CounterKeyOf(p))],
                 last)
       ELSE Step(p, DB, [procs[p] EXCEPT
                            !.pc = "track_attempt.update",
                            !.counter = CountAttempt(LoadCounter(DB, CounterKeyOf(p)))],
                 last)

\* models.py:432-436, pole.py:352-356  track_attempt: update_one; the count is
\* compared with the required count and the points are drawn
TrackUpdate(p) ==
    /\ procs[p].pc = "track_attempt.update"
    /\ IF procs[p].counter.count = procs[p].info.required_count
       THEN \E points \in RandomMinaPoints :
               Step(p, pole_counters_set(DB, CounterKeyOf(p), procs[p].counter),
                    [procs[p] EXCEPT !.pc = "Pole.create.insert",
                                     !.points = points,
                                     !.tracked = @ + 1],
                    last)
       ELSE Step(p, pole_counters_set(DB, CounterKeyOf(p), procs[p].counter),
                 [procs[p] EXCEPT !.pc = "reveal.find", !.tracked = @ + 1], last)

\* pole.py:360-362  update_one({"_id": counter.get("_id")}, completed)
MarkCompleted(p) ==
    /\ procs[p].pc = "completed.update"
    /\ Step(p, pole_counters_set_completed(DB, procs[p].counter.id),
            [procs[p] EXCEPT !.pc = "mark_pole_claimed"], last)

\* models.py:627-645  reveal_character: the document is read again (it exists
\* by now) and the next position chosen
RevealFind(p) ==
    /\ procs[p].pc = "reveal.find"
    /\ MinaKeyOf(p) \in DOMAIN pole_mina
    /\ IF Len(pole_mina[MinaKeyOf(p)].revealed_positions)
             >= Len(pole_mina[MinaKeyOf(p)].random_string)
       THEN Step(p, DB, Rest(p),
                 ProgressReply(procs[p].pole_type, procs[p].counter,
                               procs[p].info.required_count, pole_mina[MinaKeyOf(p)]))
       ELSE Step(p, DB,
                 [procs[p] EXCEPT
                     !.pc = "reveal.update",
                     !.pole_mina_doc =
                         [pole_mina[MinaKeyOf(p)] EXCEPT
                             !.revealed_positions =
                                 RevealNext(pole_mina[MinaKeyOf(p)].random_string, @)]],
                 last)

\* models.py:648-654, pole.py:380-393  reveal_character: update_one, then the
\* progress message
RevealUpdate(p) ==
    /\ procs[p].pc = "reveal.update"
    /\ Step(p, pole_mina_set_revealed(DB, MinaKeyOf(p),
                                      procs[p].pole_mina_doc.revealed_positions),
            Rest(p),
            ProgressReply(procs[p].pole_type, procs[p].counter,
                          procs[p].info.required_count, procs[p].pole_mina_doc))

NextConc ==
    \E p \in ProcIds :
        \/ \E update \in ConcUpdates : Receive(p, update)
        \/ RegisterUser(p)
        \/ RegisterGroup(p)
        \/ CacheLookup(p)
        \/ PolesLookup(p)
        \/ OrderFromCache(p)
        \/ OrderFromPoles(p)
        \/ InsertPole(p)
        \/ IncUser(p)
        \/ IncUserPoles(p)
        \/ IncGroup(p)
        \/ MarkClaimed(p)
        \/ MinaFind(p)
        \/ MinaInsert(p)
        \/ TrackFind(p)
        \/ TrackUpdate(p)
        \/ MarkCompleted(p)
        \/ RevealFind(p)
        \/ RevealUpdate(p)

SpecConc == Init /\ [][NextConc]_vars

\* the handlers that have asked for the day's puzzle and hold an answer
HoldingInfo == {p \in ProcIds : procs[p].pc # "idle" /\ procs[p].info # None}

(***************************************************************************)
(* C4: of claims for the same (group, type, day), or for the same free     *)
(* slot of one (group, family, day), processed concurrently with their     *)
(* store calls interleaved, exactly one is awarded: never two ClaimRecords *)
(* for that type and day, never two users holding the same slot.           *)
(***************************************************************************)
C4_OneWinner ==
    \A i, j \in 1..Len(poles) :
        /\ poles[i].type \in NonCounterTypes
        /\ poles[j].type \in NonCounterTypes
        /\ poles[i].group_id = poles[j].group_id
        /\ poles[i].date = poles[j].date
        /\ \/ poles[i].type = poles[j].type
           \/ /\ poles[i].type \in OrderedTypes
              /\ poles[j].type \in OrderedTypes
              /\ FamilyStartHour(ALL_POLE_TYPES[poles[i].type])
                    = FamilyStartHour(ALL_POLE_TYPES[poles[j].type])
              /\ ALL_POLE_TYPES[poles[i].type].order = ALL_POLE_TYPES[poles[j].type].order
        => i = j

(***************************************************************************)
(* C7: of Pole Mina attempts for one (group, day) processed concurrently   *)
(* with their store calls interleaved, every attempt raises the stored     *)
(* count by exactly one, and at most one is awarded: never two             *)
(* ClaimRecords for the puzzle on one day.                                 *)
(***************************************************************************)
C7_NoLostAttempt ==
    /\ (\A p \in ProcIds : procs[p].pc = "idle") =>
          StoredCount(-1, 1) = Tracked(1) + Tracked(2)
    /\ \A g \in GroupIds, d \in DaysSeen :
          Cardinality(RecordsOf(g, "Pole Mina", d)) <= 1

(***************************************************************************)
(* C9: for every (group, day) the secret (20 characters) and the required  *)
(* count (1..10) are chosen at the first attempt and stay as they are:     *)
(* every attempt of the day works with the stored secret and the stored    *)
(* required count.                                                         *)
(***************************************************************************)
C9_StableSecret ==
    /\ \A key \in DOMAIN pole_mina :
          /\ Len(pole_mina[key].random_string) = 20
          /\ pole_mina[key].required_count \in 1..10
    /\ \A p \in HoldingInfo :
          procs[p].pc # "daily_info.insert" =>
              /\ MinaKeyOf(p) \in DOMAIN pole_mina
              /\ procs[p].info.random_string = pole_mina[MinaKeyOf(p)].random_string
              /\ procs[p].info.required_count = pole_mina[MinaKeyOf(p)].required_count

(***************************************************************************)
(* Scores.                                                                 *)
(***************************************************************************)
\* total_points and poles_claimed of a key in users or user_poles; a key
\* without a document has none
PointsIn(collection, key) ==
    IF key \in DOMAIN collection THEN collection[key].total_points ELSE 0

ClaimsIn(collection, key) ==
    IF key \in DOMAIN collection THEN collection[key].poles_claimed ELSE 0

(***************************************************************************)
(* Store calls that fail.  Every call of models.py to the store sits in a  *)
(* try block whose except branch logs the error and returns None, False or *)
(* a default; a call that raises is named by its place in the code.        *)
(***************************************************************************)
\* the store calls made for a message that triggers a non-counter claim
StoreCalls ==
    {"User.create_or_update", "Group.create_or_update",
     "pole_exists.cache", "pole_exists.poles",
     "check_order_condition.cache", "get_daily_poles",
     "Pole.create.insert", "update_points.users", "update_points.user_poles",
     "increment_pole_count", "mark_pole_claimed"}

\* the store calls made only when the claim has passed every check
AwardCalls ==
    {"Pole.create.insert", "update_points.users", "update_points.user_poles",
     "increment_pole_count", "mark_pole_claimed"}

\* while one message is handled the store answers, or one of its calls raises
FaultSets == {{}} \cup {{call} : call \in StoreCalls}

FaultTexts == { <<"pole">>, <<"subpole">>, <<"fail">> }

FaultUpdates == GroupUpdates(FaultTexts, {Day1Night}, {1, 2}, {-1})

NextFault ==
    \E update \in FaultUpdates, faults \in FaultSets :
        /\ Len(poles) < MaxPoles
        /\ HandleMessage(update, faults)

SpecFault == Init /\ [][NextFault]_vars

\* what handling update in the current state gives when the calls in faults
\* raise (no random value is drawn for a non-counter claim)
OutcomeUnder(update, faults) ==
    message_handler(DB, llm_available, update,
                    [info |-> NoDraw, reveal |-> NoDraw, points |-> 0], faults)

\* the sum of the points of the ClaimRecords of user u in the groups gs
RECURSIVE RecordedPoints(_, _, _)
RecordedPoints(records, u, gs) ==
    IF records = <<>> THEN 0
    ELSE (IF Head(records).user_id = u /\ Head(records).group_id \in gs
          THEN Head(records).points ELSE 0)
         + RecordedPoints(Tail(records), u, gs)

RecordedClaims(records, u, gs) ==
    Cardinality({i \in 1..Len(records) :
                    records[i].user_id = u /\ records[i].group_id \in gs})

(***************************************************************************)
(* C13: when a store call made for a claim that passed every check raises, *)
(* the handler reports an explicit failure (the error reply), which is not *)
(* what it reports for a rejected claim or for a text that matches nothing.*)
(***************************************************************************)
C13_FaultReported ==
    \A update \in FaultUpdates, call \in AwardCalls :
        /\ Admissible(update)
        /\ TypeOf(update) \in NonCounterTypes
        /\ \E r \in Outcomes(update) : Awarded(r)
        => OutcomeUnder(update, {call}).out.reply = "error"

(***************************************************************************)
(* C14: in every reachable state, store calls failing or not, the global   *)
(* score and claim count of every user are the sums over the user's        *)
(* ClaimRecords, and so are the score and claim count in every group: no   *)
(* ClaimRecord exists without its score updates.                           *)
(***************************************************************************)
C14_NoPartialAward ==
    \A u \in UserIds :
        /\ PointsIn(users, u) = RecordedPoints(poles, u, GroupIds)
        /\ ClaimsIn(users, u) = RecordedClaims(poles, u, GroupIds)
        /\ \A g \in GroupIds :
              /\ PointsIn(user_poles, <<u, g>>) = RecordedPoints(poles, u, {g})
              /\ ClaimsIn(user_poles, <<u, g>>) = RecordedClaims(poles, u, {g})

(***************************************************************************)
(* Classification of texts: claims, malformed claims, cosmetic reactions.  *)
(***************************************************************************)
TextTexts ==
    { <<"pole">>, <<"Pole", "Canaria">>, <<"pole", "andaluza">>,
      <<"pole", "", "canaria">>, <<"pole", "xd">>, <<"Pole", "Canaria", "ya">>,
      <<"dios", "xd">>, <<"hola">>, <<"fail">> }

TextUpdates == GroupUpdates(TextTexts, {Day1Night, Day1Noon}, {1, 2}, {-1})

NextText ==
    \E update \in TextUpdates :
        /\ Len(poles) < MaxPoles
        /\ HandleMessage(update, {})

SpecText == Init /\ [][NextText]_vars

\* text is, piece for piece, a trigger of some claim type of the catalog
HasTrigger(text) ==
    \E t \in DOMAIN ALL_POLE_TYPES :
        \E j \in 1..Len(ALL_POLE_TYPES[t].triggers) :
            ALL_POLE_TYPES[t].triggers[j] = text

\* the claim keyword and, after blanks, something more, no trigger of the
\* catalog being the whole text
Malformed(update) ==
    /\ ~HasTrigger(Normalize(update.text))
    /\ CLOWN_POLE_PATTERN(Strip(Normalize(update.text)))

ClownRecords(records) ==
    {i \in 1..Len(records) : records[i].type = "Clown Pole"}

(***************************************************************************)
(* C15: a text that is a trigger of a claim type, of one word or of        *)
(* several, never gets the malformed-claim reaction nor a malformed-claim  *)
(* record, whether the claim is awarded or rejected; a text that is no     *)
(* trigger and has the malformed-claim shape gets the malformed-claim      *)
(* reaction and no cosmetic one.                                           *)
(***************************************************************************)
C15_ClaimsBeforeMalformed ==
    \A update \in TextUpdates :
        Admissible(update) =>
            \A r \in Outcomes(update) :
               /\ HasTrigger(Normalize(update.text)) =>
                     /\ \/ r.out.reaction_data = None
                        \/ r.out.reaction_data.type # "clown_pole"
                     /\ ClownRecords(r.db.poles) = ClownRecords(poles)
                     /\ \/ r.db.poles = poles
                        \/ r.db.poles[Len(r.db.poles)].type = TypeOf(update)
               /\ Malformed(update) =>
                     /\ r.out.reaction_data # None
                     /\ r.out.reaction_data.type = "clown_pole"

\* Pole Canaria is claimed, and its two-word trigger sent again is rejected
\* without a malformed-claim record
C15_Witness ==
    /\ \E i \in 1..Len(poles) : poles[i].type = "Pole Canaria"
    /\ ClownRecords(poles) = {}
    /\ \E update \in TextUpdates :
          /\ Admissible(update)
          /\ TypeOf(update) = "Pole Canaria"
          /\ \A r \in Outcomes(update) : r.db.poles = poles /\ r.out.reply = "none"

(***************************************************************************)
(* C16: with the store answering, every malformed claim is answered with   *)
(* the reaction of 0.0001 points without text, and appends one ClaimRecord *)
(* of 0.0001 points for the sender and raises the sender's global and      *)
(* group score by 0.0001, whatever was claimed or sent before that day and *)
(* whatever the time.                                                      *)
(***************************************************************************)
C16_MalformedAlwaysScores ==
    \A update \in TextUpdates :
        /\ Admissible(update)
        /\ Malformed(update)
        => \A r \in Outcomes(update) :
              /\ r.out.reply = "reaction"
              /\ r.out.pole_data = None
              /\ r.out.counter_message = None
              /\ r.out.reaction_data =
                    [type |-> "clown_pole", points |-> 1, response |-> None]
              /\ r.db.poles =
                    Append(poles, NewPoleData(update.user_id, update.chat_id,
                                              "Clown Pole", 1, astimezone(update.date)))
              /\ PointsIn(r.db.users, update.user_id) =
                    PointsIn(users, update.user_id) + 1
              /\ PointsIn(r.db.user_poles, <<update.user_id, update.chat_id>>) =
                    PointsIn(user_poles, <<update.user_id, update.chat_id>>) + 1

\* one user has sent three malformed claims on one day and holds 0.0003 points
C16_Witness ==
    /\ Len(poles) = 3
    /\ ClownRecords(poles) = {1, 2, 3}
    /\ \A i \in 1..3 : poles[i].user_id = 1 /\ poles[i].date = 1
    /\ PointsIn(users, 1) = 3
    /\ PointsIn(user_poles, <<1, -1>>) = 3
    /\ last.reply = "reaction"

(***************************************************************************)
(* Time conditions and the day boundary.                                   *)
(***************************************************************************)
\* Madrid clock readings around the targets of Hora Porro, the ends of the
\* Andaluza range and midnight
ClockInstants ==
    { MadridInstant(1, 4, 19), MadridInstant(1, 4, 20), MadridInstant(1, 4, 21),
      MadridInstant(1, 11, 59), MadridInstant(1, 12, 0),
      MadridInstant(1, 15, 59), MadridInstant(1, 16, 0),
      MadridInstant(1, 23, 59), MadridInstant(2, 0, 0), MadridInstant(2, 4, 20) }

ClockTexts ==
    { <<"hora", "porro">>, <<"pole", "andaluza">>, <<"pole", "canaria">>, <<"fail">> }

ClockUpdates == GroupUpdates(ClockTexts, ClockInstants, {1}, {-1})

NextClock ==
    \E update \in ClockUpdates :
        /\ Len(poles) < MaxPoles
        /\ HandleMessage(update, {})

SpecClock == Init /\ [][NextClock]_vars

\* the claim types of each kind of time condition
TypesWithCondition(condition_type) ==
    {t \in DOMAIN ALL_POLE_TYPES :
        /\ "time_condition" \in DOMAIN ALL_POLE_TYPES[t]
        /\ ALL_POLE_TYPES[t].time_condition.type = condition_type}

\* a reading of the Madrid clock, to the second
ClockReading(hour, minute, second) ==
    [date |-> 1, hour |-> hour, minute |-> minute, second |-> second]

Hours == 0..23

\* the minutes and seconds looked at: the ends, and around the targets
Minutes == {0, 13, 14, 15, 19, 20, 21, 59}

Seconds == {0, 30, 59}

\* the configured targets of an exact-time type, as <<hour, minute>>
ExactTargets(t) ==
    {<<ALL_POLE_TYPES[t].time_condition.exact_times[i].hour,
       ALL_POLE_TYPES[t].time_condition.exact_times[i].minute>> :
        i \in 1..Len(ALL_POLE_TYPES[t].time_condition.exact_times)}

\* the Europe/Madrid calendar date of an instant (winter time)
CalendarDate(instant) == (instant + 60) \div 1440

\* the time check of the exact-time types over the clock readings
ExactTimeRule ==
    /\ \A t \in TypesWithCondition("exact_time") :
          \A h \in Hours, m \in Minutes, s \in Seconds :
             check_time_condition(ALL_POLE_TYPES[t].time_condition,
                                  ClockReading(h, m, s))
                <=> <<h, m>> \in ExactTargets(t)
    /\ ExactTargets("Hora Porro") = {<<4, 20>>, <<16, 20>>}
    /\ \A s \in Seconds :
          /\ check_time_condition(ALL_POLE_TYPES["Hora Porro"].time_condition,
                                  ClockReading(4, 20, s))
          /\ ~check_time_condition(ALL_POLE_TYPES["Hora Porro"].time_condition,
                                   ClockReading(4, 19, s))
          /\ ~check_time_condition(ALL_POLE_TYPES["Hora Porro"].time_condition,
                                   ClockReading(4, 21, s))

\* the time check of the time-range types over the clock readings
TimeRangeRule ==
    /\ \A t \in TypesWithCondition("time_range") :
          \A h \in Hours, m \in Minutes :
             check_time_condition(ALL_POLE_TYPES[t].time_condition,
                                  ClockReading(h, m, 0))
                <=> /\ ALL_POLE_TYPES[t].time_condition.start_hour <= h
                    /\ h < ALL_POLE_TYPES[t].time_condition.end_hour
    /\ ALL_POLE_TYPES["Pole Andaluza"].time_condition.start_hour = 12
    /\ ALL_POLE_TYPES["Pole Andaluza"].time_condition.end_hour = 16
    /\ check_time_condition(ALL_POLE_TYPES["Pole Andaluza"].time_condition,
                            ClockReading(12, 0, 0))
    /\ check_time_condition(ALL_POLE_TYPES["Pole Andaluza"].time_condition,
                            ClockReading(15, 59, 59))
    /\ ~check_time_condition(ALL_POLE_TYPES["Pole Andaluza"].time_condition,
                             ClockReading(11, 59, 59))
    /\ ~check_time_condition(ALL_POLE_TYPES["Pole Andaluza"].time_condition,
                             ClockReading(16, 0, 0))

\* the time check of the daily-reset types over the clock readings
DailyResetRule ==
    \A t \in TypesWithCondition("daily_reset") :
        \A h \in Hours, m \in Minutes :
           check_time_condition(ALL_POLE_TYPES[t].time_condition,
                                ClockReading(h, m, 0))

(***************************************************************************)
(* C17: the time check of an exact-time claim type passes iff the Madrid   *)
(* hour and minute of the message are one of its targets, whatever the     *)
(* second; Hora Porro passes at 04:20:00 to 04:20:59 and fails at 04:19    *)
(* and 04:21; and a Hora Porro claim not yet made that day is awarded iff  *)
(* it is sent at 04:20 or 16:20.                                           *)
(***************************************************************************)
C17_ExactTime ==
    /\ ExactTimeRule
    /\ \A update \in ClockUpdates :
          /\ Admissible(update)
          /\ TypeOf(update) \in TypesWithCondition("exact_time")
          /\ RecordsOf(update.chat_id, TypeOf(update), DayOf(update)) = {}
          => \A r \in Outcomes(update) :
                Awarded(r) <=>
                   <<astimezone(update.date).hour, astimezone(update.date).minute>>
                      \in ExactTargets(TypeOf(update))

\* Hora Porro was awarded at 04:20 and a message at 04:21 was not
C17_Witness ==
    /\ Len(poles) = 1
    /\ poles[1].type = "Hora Porro"
    /\ poles[1].created_at = [date |-> 1, hour |-> 4, minute |-> 20]
    /\ now = MadridInstant(1, 4, 21)
    /\ last.reply = "none"

(***************************************************************************)
(* C18: the time check of a time-range claim type passes iff               *)
(* start_hour <= Madrid hour < end_hour; with the range 12..16 it passes   *)
(* at 12:00 and 15:59 and fails at 11:59 and 16:00; and a Pole Andaluza    *)
(* claim that is not yet made that day and meets the slot order is awarded *)
(* iff its hour is in 12..15.                                              *)
(***************************************************************************)
C18_TimeRange ==
    /\ TimeRangeRule
    /\ \A update \in ClockUpdates :
          /\ Admissible(update)
          /\ TypeOf(update) \in TypesWithCondition("time_range")
          /\ RecordsOf(update.chat_id, TypeOf(update), DayOf(update)) = {}
          /\ check_order_condition(DB, ALL_POLE_TYPES[TypeOf(update)], update.chat_id,
                                   astimezone(update.date), update.user_id, {})
          => \A r \in Outcomes(update) :
                Awarded(r) <=> astimezone(update.date).hour \in 12..15

\* Pole Andaluza was awarded at 15:59 and a message at 16:00 was not
C18_Witness ==
    /\ Len(poles) = 1
    /\ poles[1].type = "Pole Andaluza"
    /\ poles[1].created_at = [date |-> 1, hour |-> 15, minute |-> 59]
    /\ now = MadridInstant(1, 16, 0)
    /\ last.reply = "none"

MidnightAttempts ==
    GroupUpdates({<<"pole", "mina">>},
                 {MadridInstant(1, 23, 59), MadridInstant(2, 0, 0)}, {1}, {-1})

\* the draws of an attempt looked at: required counts 1 (the attempt
\* completes the puzzle) and 5 (it does not)
DrawsProbed(update) ==
    {rnd \in Draws(DB, update, {}) :
        rnd.info.required_count \in {1, 5} /\ rnd.points = 10000}

(***************************************************************************)
(* C20: the day of every ClaimRecord and of every claimed-types document   *)
(* is the Europe/Madrid calendar date of a message; right after Fracapole  *)
(* is claimed, a further Fracapole claim is awarded iff the Madrid         *)
(* calendar date of its message differs from that of the claim: at 00:00   *)
(* after a claim at 23:59, not at 04:20 after a claim at 00:00 although    *)
(* the UTC dates differ; a first attempt at the counter puzzle writes the  *)
(* counter and the puzzle of the Madrid calendar date of its message.      *)
(***************************************************************************)
C20_MadridCalendarDay ==
    /\ \A update \in MidnightAttempts :
          Admissible(update) =>
             \A rnd \in DrawsProbed(update) :
                /\ DOMAIN message_handler(DB, llm_available, update, rnd, {}).db.pole_counters
                      = {<<update.chat_id, "Pole Mina", CalendarDate(update.date)>>}
                /\ DOMAIN message_handler(DB, llm_available, update, rnd, {}).db.pole_mina
                      = {<<update.chat_id, CalendarDate(update.date)>>}
    /\ \A i \in 1..Len(poles) : poles[i].date = poles[i].created_at.date
    /\ \A key \in DOMAIN poles_cache :
          \E i \in 1..Len(poles) :
             poles[i].group_id = key[1] /\ poles[i].date = key[2]
    /\ (last.reaction_data # None /\ last.reaction_data.type = "Fracapole") =>
          /\ poles[Len(poles)].type = "Fracapole"
          /\ poles[Len(poles)].date = CalendarDate(now)
          /\ \A update \in ClockUpdates :
                /\ Admissible(update)
                /\ TypeOf(update) = "Fracapole"
                => \A r \in Outcomes(update) :
                      Awarded(r) <=> CalendarDate(update.date) # CalendarDate(now)

\* Fracapole was claimed at 23:59 and again at 00:00, and a message at 04:20
\* of that day (another UTC date than the claim at 00:00) was rejected
C20_Witness ==
    /\ Len(poles) = 2
    /\ poles[1].type = "Fracapole"
    /\ poles[1].created_at = [date |-> 1, hour |-> 23, minute |-> 59]
    /\ poles[2].type = "Fracapole"
    /\ poles[2].created_at = [date |-> 2, hour |-> 0, minute |-> 0]
    /\ now = MadridInstant(2, 4, 20)
    /\ now \div 1440 # MadridInstant(2, 0, 0) \div 1440
    /\ last.reply = "none"

(***************************************************************************)
(* C11: with updates handled one at a time and the store answering, every  *)
(* awarded non-counter claim appends exactly one ClaimRecord, of the       *)
(* type's configured points, raises the winner's global score and the      *)
(* winner's score in that group by exactly those points and both claim     *)
(* counts by one, and leaves every other score as it was.                  *)
(***************************************************************************)
C11_AwardScores ==
    \A update \in TextUpdates :
        /\ Admissible(update)
        /\ TypeOf(update) \in NonCounterTypes
        => \A r \in Outcomes(update) :
              Awarded(r) =>
                 /\ r.db.poles =
                       Append(poles,
                              NewPoleData(update.user_id, update.chat_id, TypeOf(update),
                                          ALL_POLE_TYPES[TypeOf(update)].points,
                                          astimezone(update.date)))
                 /\ \A u \in UserIds :
                       /\ PointsIn(r.db.users, u) = PointsIn(users, u) +
                             (IF u = update.user_id
                              THEN ALL_POLE_TYPES[TypeOf(update)].points ELSE 0)
                       /\ ClaimsIn(r.db.users, u) = ClaimsIn(users, u) +
                             (IF u = update.user_id THEN 1 ELSE 0)
                 /\ \A u \in UserIds, g \in GroupIds :
                       /\ PointsIn(r.db.user_poles, <<u, g>>) =
                             PointsIn(user_poles, <<u, g>>) +
                             (IF u = update.user_id /\ g = update.chat_id
                              THEN ALL_POLE_TYPES[TypeOf(update)].points ELSE 0)
                       /\ ClaimsIn(r.db.user_poles, <<u, g>>) =
                             ClaimsIn(user_poles, <<u, g>>) +
                             (IF u = update.user_id /\ g = update.chat_id THEN 1 ELSE 0)

\* one user was awarded Pole (10 points) and Fracapole (1 point) in one group
C11_Witness ==
    \E u \in UserIds, g \in GroupIds :
        /\ Len(poles) = 2
        /\ {poles[1].type, poles[2].type} = {"Pole", "Fracapole"}
        /\ poles[1].user_id = u /\ poles[2].user_id = u
        /\ poles[1].group_id = g /\ poles[2].group_id = g
        /\ PointsIn(users, u) = 110000
        /\ ClaimsIn(users, u) = 2
        /\ PointsIn(user_poles, <<u, g>>) = 110000
        /\ ClaimsIn(user_poles, <<u, g>>) = 2

(***************************************************************************)
(* C12: in every step the cumulative points of every user, globally and in *)
(* every group, are at least what they were, and a score document once     *)
(* written stays.                                                          *)
(***************************************************************************)
C12_PointsNeverDecrease ==
    [][/\ \A u \in UserIds :
             /\ u \in DOMAIN users => u \in DOMAIN users'
             /\ PointsIn(users', u) >= PointsIn(users, u)
       /\ \A u \in UserIds, g \in GroupIds :
             /\ <<u, g>> \in DOMAIN user_poles => <<u, g>> \in DOMAIN user_poles'
             /\ PointsIn(user_poles', <<u, g>>) >= PointsIn(user_poles, <<u, g>>)]_vars

\* a user who holds points has sent a later message that was not awarded
C12_Witness ==
    /\ Len(poles) = 1
    /\ poles[1].created_at.hour = 0
    /\ DOMAIN users = {1}
    /\ PointsIn(users, 1) > 0
    /\ PointsIn(user_poles, <<1, -1>>) > 0
    /\ now = Day1Noon
    /\ last.reply = "none"

(***************************************************************************)
(* Two groups at once: races and the counter puzzle in groups -1 and -2 on *)
(* the same day, handled one at a time with the store answering.           *)
(***************************************************************************)
GroupsTexts == {<<"pole">>, <<"subpole">>, <<"pole", "mina">>}

GroupsUpdates == GroupUpdates(GroupsTexts, {Day1Night}, {1, 2}, GroupIds)

\* the ClaimRecords stored and the puzzle attempts counted so far
Progress == Len(poles) + StoredCount(-1, 1) + StoredCount(-2, 1)

\* the draws followed when two groups play: short puzzles (the required
\* count is drawn from 1..10) and the highest award (1..10 points)
GroupsDraws(db, update) ==
    {rnd \in Draws(db, update, {}) :
        /\ rnd.info.required_count \in {0, MIN_REQUIRED_COUNT, MIN_REQUIRED_COUNT + 1}
        /\ rnd.points \in {0, 10000 * MAX_MINA_POINTS}}

HandleDrawn(update, rnd) ==
    /\ InOrder(update)
    /\ Newcomer(update)
    /\ LET r == message_handler(DB, llm_available, update, rnd, {}) IN
          /\ SetStore(r.db)
          /\ llm_available' = r.llm_available
          /\ now' = update.date
          /\ last' = r.out
    /\ UNCHANGED <<procs, startup>>

NextGroups ==
    \E update \in GroupsUpdates :
        /\ Progress < MaxPoles
        /\ \E rnd \in GroupsDraws(DB, update) : HandleDrawn(update, rnd)

SpecGroups == Init /\ [][NextGroups]_vars

\* function f on the keys that satisfy Keep
Restrict(f, Keep(_)) == [k \in {x \in DOMAIN f : Keep(x)} |-> f[k]]

\* what the store holds for group g: its ClaimRecords, its claimed-types
\* cache (the slot state), its counters, its puzzles, its group-scoped
\* scores and its group document
GroupPart(db, g) ==
    [user_poles    |-> Restrict(db.user_poles, LAMBDA k : k[2] = g),
     groups        |-> Restrict(db.groups, LAMBDA k : k = g),
     poles         |-> SelectSeq(db.poles, LAMBDA p : p.group_id = g),
     poles_cache   |-> Restrict(db.poles_cache, LAMBDA k : k[1] = g),
     pole_counters |-> Restrict(db.pole_counters, LAMBDA k : k[1] = g),
     pole_mina     |-> Restrict(db.pole_mina, LAMBDA k : k[1] = g)]

\* the store as it would be had nothing ever happened outside group g
OnlyGroup(db, g) == [users |-> db.users] @@ GroupPart(db, g)

\* r is what handling update gives in the store as it is, alone what it
\* gives where only the update's group has a history
SameAsAlone(update, r, alone) ==
    /\ r.out = alone.out
    /\ GroupPart(r.db, update.chat_id) = GroupPart(alone.db, update.chat_id)
    /\ \A other \in GroupIds \ {update.chat_id} :
          GroupPart(r.db, other) = GroupPart(DB, other)

(***************************************************************************)
(* C21: claims in different groups are independent: handling a message of  *)
(* group G1 leaves the ClaimRecords, slot state, counter, puzzle and       *)
(* group-scoped scores of every other group as they were, and what a       *)
(* message of a group gives (the answer and the group's new state) is what *)
(* it would give had nothing happened in the other groups.                 *)
(***************************************************************************)
C21_GroupsIndependent ==
    \A update \in GroupsUpdates :
        Admissible(update) =>
            /\ GroupsDraws(DB, update) = GroupsDraws(OnlyGroup(DB, update.chat_id), update)
            /\ \A rnd \in GroupsDraws(DB, update) :
                  SameAsAlone(update,
                      message_handler(DB, llm_available, update, rnd, {}),
                      message_handler(OnlyGroup(DB, update.chat_id), llm_available,
                                      update, rnd, {}))

\* Pole is claimed in both groups, the second after the first, and a puzzle
\* attempt is counted in one of them
C21_Witness ==
    /\ Len(poles) = 2
    /\ poles[1].type = "Pole" /\ poles[1].group_id = -1
    /\ poles[2].type = "Pole" /\ poles[2].group_id = -2
    /\ StoredCount(-1, 1) + StoredCount(-2, 1) = 1

(***************************************************************************)
(* The ranking (models.py Pole.get_ranking, pole.py get_user_ranking,      *)
(* handlers.py ranking_command).  A value of the _id field carries its     *)
(* type: a telegram id is an int, the store's own _id an ObjectId, and     *)
(* values of different types are never equal.                              *)
(***************************************************************************)
TelegramId(telegram_id) == <<"int", telegram_id>>

ObjectId(telegram_id) == <<"ObjectId", telegram_id>>

\* get_ranking(group_id=None): None and 0 both fail the test "if group_id"
NoGroup == 0

\* cursor.sort([("total_points", -1)]): the documents by falling points; the
\* sort has no second key, documents with equal points come in any order
SortedByPoints(docs) ==
    {s \in [1..Cardinality(docs) -> docs] :
        /\ \A i, j \in 1..Cardinality(docs) : s[i] = s[j] => i = j
        /\ \A i, j \in 1..Cardinality(docs) :
              i < j => s[i].total_points >= s[j].total_points}

\* cursor.limit without the cut
Limited_NoCut(sorted, limit) ==
    sorted

\* cursor.limit(limit): the first limit documents; limit 0 means no limit
Limited(sorted, limit) ==
    IF limit = 0 \/ limit >= Len(sorted) THEN sorted
    ELSE SubSeq(sorted, 1, limit)

\* models.py:500  db.user_poles.find({"group_id": group_id}), converted to
\* {"_id": user_id, "total_points": ...} (models.py:506-510)
GroupRows(db, group_id) ==
    {[_id |-> TelegramId(k[1]), total_points |-> db.user_poles[k].total_points] :
        k \in {x \in DOMAIN db.user_poles : x[2] = group_id}}

\* models.py:515  users_collection.find({"is_bot": False}): the user
\* documents as they are stored
GlobalRows(db) ==
    {[_id |-> ObjectId(u), telegram_id |-> u,
      total_points |-> db.users[u].total_points] :
        u \in {x \in DOMAIN db.users : ~db.users[x].is_bot}}

\* models.py:493-522  the lists get_ranking can return
Pole_get_ranking(db, group_id, limit, faults) ==
    IF "get_ranking" \in faults THEN {<<>>}
    ELSE {Limited(sorted, limit) :
            sorted \in SortedByPoints(IF group_id # NoGroup
                                      THEN GroupRows(db, group_id)
                                      ELSE GlobalRows(db))}

\* models.py:234-241  find_one({"telegram_id": telegram_id})
User_get_user(db, id) ==
    IF \E u \in DOMAIN db.users : TelegramId(u) = id
    THEN [telegram_id |-> id[2]]
    ELSE None

\* pole.py:553-560  the user found for rank["_id"] is attached
WithUser(db, rank) ==
    IF User_get_user(db, rank._id) # None
    THEN [user |-> User_get_user(db, rank._id)] @@ rank
    ELSE rank

\* pole.py:539-562  the lists get_user_ranking can return
get_user_ranking(db, group_id, limit, faults) ==
    {[i \in 1..Len(ranking) |-> WithUser(db, ranking[i])] :
        ranking \in Pole_get_ranking(db, group_id, limit, faults)}

RANKING_LIMIT == 10

\* handlers.py:107-130  /ranking: the global ranking in a private chat, the
\* group's ranking elsewhere, the group registered first
ranking_command(db, chat_id, chat_type, faults) ==
    LET db1 == IF chat_type = "private" THEN db
               ELSE Group_create_or_update(db, chat_id, faults)
    IN  {[db |-> db1,
          out |-> [pole_data |-> None, counter_message |-> None,
                   reaction_data |-> None,
                   reply |-> IF rankings = <<>> THEN "no scores" ELSE "ranking",
                   rankings |-> rankings]] :
            rankings \in get_user_ranking(db1,
                             IF chat_type = "private" THEN NoGroup ELSE chat_id,
                             RANKING_LIMIT, faults)}

(***************************************************************************)
(* Scores of two groups and the /ranking command.                          *)
(***************************************************************************)
RankingSenders == {1, 2}

RankingUpdates ==
    GroupUpdates({<<"pole">>, <<"fail">>}, {Day1Night, Day2Night}, RankingSenders, {-1})
        \cup GroupUpdates({<<"pole">>}, {Day1Night}, RankingSenders, {-2})

\* the chats /ranking is sent in: a private chat (its id is the user's) and
\* the groups
RankingChats ==
    {[chat_id |-> u, chat_type |-> "private"] : u \in RankingSenders}
        \cup {[chat_id |-> g, chat_type |-> "supergroup"] : g \in GroupIds}

RankingCommand(chat) ==
    /\ \/ chat.chat_type = "private"
       \/ chat.chat_id \in DOMAIN groups
       \/ chat.chat_id = 0 - (Cardinality(DOMAIN groups) + 1)
    /\ \E r \in ranking_command(DB, chat.chat_id, chat.chat_type, {}) :
          /\ SetStore(r.db)
          /\ last' = r.out
    /\ UNCHANGED <<llm_available, now, procs, startup>>

NextRanking ==
    \/ \E update \in RankingUpdates :
          /\ Len(poles) < MaxPoles
          /\ HandleMessage(update, {})
    \/ \E chat \in RankingChats : RankingCommand(chat)

SpecRanking == Init /\ [][NextRanking]_vars

\* the limits asked for: some that cut the list, and the handler's
RankingLimits == {1, 2, RANKING_LIMIT}

\* the scopes a ranking is asked for
RankingScopes == {NoGroup} \cup GroupIds

\* user u's cumulative score in the scope
ScoreIn(u, scope) ==
    IF scope = NoGroup THEN users[u].total_points
    ELSE user_poles[<<u, scope>>].total_points

\* the user an entry of a ranking of the scope stands for
UserOf(entry, scope) ==
    IF scope = NoGroup THEN entry.telegram_id ELSE entry._id[2]

\* the users that have a score in the scope
ScoredIn(scope) ==
    IF scope = NoGroup THEN DOMAIN users
    ELSE {k[1] : k \in {x \in DOMAIN user_poles : x[2] = scope}}

(***************************************************************************)
(* C22: the ranking of a group, or the global one, asked with limit n >= 1 *)
(* has at most n entries, in non-increasing order of cumulative points,    *)
(* and each entry's points are that user's current cumulative score in the *)
(* scope asked for.                                                        *)
(***************************************************************************)
C22_TopN ==
    \A scope \in RankingScopes, n \in RankingLimits :
        \A ranking \in get_user_ranking(DB, scope, n, {}) :
            /\ Len(ranking) <= n
            /\ \A i \in 1..Len(ranking) - 1 :
                  ranking[i].total_points >= ranking[i + 1].total_points
            /\ \A i \in 1..Len(ranking) :
                  /\ UserOf(ranking[i], scope) \in ScoredIn(scope)
                  /\ ranking[i].total_points = ScoreIn(UserOf(ranking[i], scope), scope)

\* two users have different scores in a group, a ranking of one entry is cut
\* from them, and /ranking was answered in the group
C22_Witness ==
    /\ last.reply = "ranking"
    /\ Len(last.rankings) = 2
    /\ last.rankings[1].total_points > last.rankings[2].total_points
    /\ \E g \in GroupIds :
          /\ Cardinality(ScoredIn(g)) = 2
          /\ \E ranking \in get_user_ranking(DB, g, 1, {}) : Len(ranking) = 1
          /\ \A i \in 1..2 : last.rankings[i].total_points
                                = ScoreIn(UserOf(last.rankings[i], g), g)

\* the position in poles of the last ClaimRecord that updated user u's
\* cumulative score in the scope (0 when the score was never updated):
\* Pole.create updates the scores once for every record it inserts
LastScoreUpdate(u, scope) ==
    LET mine == {i \in 1..Len(poles) :
                    /\ poles[i].user_id = u
                    /\ scope = NoGroup \/ poles[i].group_id = scope}
    IN  IF mine = {} THEN 0 ELSE CHOOSE i \in mine : \A j \in mine : j <= i

(***************************************************************************)
(* C23: users with exactly equal cumulative points are ranked in the order *)
(* of their last score updates, the earlier first, so that one store state *)
(* gives one ranking order.                                                *)
(***************************************************************************)
C23_TiesByUpdateTime ==
    \A scope \in RankingScopes :
        \A ranking \in get_user_ranking(DB, scope, RANKING_LIMIT, {}) :
            \A i, j \in 1..Len(ranking) :
                /\ i < j
                /\ ranking[i].total_points = ranking[j].total_points
                /\ LastScoreUpdate(UserOf(ranking[i], scope), scope) > 0
                /\ LastScoreUpdate(UserOf(ranking[j], scope), scope) > 0
                => LastScoreUpdate(UserOf(ranking[i], scope), scope)
                      < LastScoreUpdate(UserOf(ranking[j], scope), scope)

(***************************************************************************)
(* Startup: config.py compiles the triggers of the catalog when it is      *)
(* imported, pole.py the reaction patterns, and bot.py main starts polling.*)
(* invalid is the set of patterns of the catalog that re.compile rejects   *)
(* with re.error; the catalog of config.py has none.                       *)
(***************************************************************************)
TriggerPattern(i) == <<"trigger", i>>

ReactionPattern(i) == <<"reaction", i>>

\* the patterns of the catalog, in the order they are compiled
CatalogPatterns ==
    {TriggerPattern(i) : i \in 1..Len(COMPILED_TRIGGERS)}
        \cup {ReactionPattern(i) : i \in 1..Len(COMPILED_REACTIONS)}

\* a catalog with no invalid pattern or with one, and the token set or not
InitStartup ==
    /\ users = <<>>
    /\ user_poles = <<>>
    /\ groups = <<>>
    /\ poles = <<>>
    /\ poles_cache = <<>>
    /\ pole_counters = <<>>
    /\ pole_mina = <<>>
    /\ llm_available = "None"
    /\ now = 0
    /\ last = NoOut
    /\ procs = [p \in ProcIds |-> Idle]
    /\ \E invalid \in {{}} \cup {{pattern} : pattern \in CatalogPatterns},
          token \in BOOLEAN :
          startup = [pc |-> "config.py", next |-> 1, invalid |-> invalid,
                     token |-> token, triggers |-> <<>>, reactions |-> <<>>]

\* config.py:187-202  one pass of the loop body: the compiled pattern is
\* appended; re.error is logged and the loop goes on
CompileTrigger ==
    /\ startup.pc = "config.py"
    /\ startup.next <= Len(COMPILED_TRIGGERS)
    /\ startup' = [startup EXCEPT
          !.triggers = IF TriggerPattern(startup.next) \in startup.invalid
                       THEN @ ELSE Append(@, startup.next),
          !.next = @ + 1]
    /\ UNCHANGED <<store, llm_available, now, last, procs>>

\* pole.py:14  config is imported, the reactions are compiled next
ConfigImported ==
    /\ startup.pc = "config.py"
    /\ startup.next > Len(COMPILED_TRIGGERS)
    /\ startup' = [startup EXCEPT !.pc = "pole.py", !.next = 1]
    /\ UNCHANGED <<store, llm_available, now, last, procs>>

\* pole.py:25-36  one pass of the loop body, as for the triggers
CompileReaction ==
    /\ startup.pc = "pole.py"
    /\ startup.next <= Len(COMPILED_REACTIONS)
    /\ startup' = [startup EXCEPT
          !.reactions = IF ReactionPattern(startup.next) \in startup.invalid
                        THEN @ ELSE Append(@, startup.next),
          !.next = @ + 1]
    /\ UNCHANGED <<store, llm_available, now, last, procs>>

\* bot.py:22-67  main: without a token it returns, else the handlers are
\* registered and polling starts
Main ==
    /\ startup.pc = "pole.py"
    /\ startup.next > Len(COMPILED_REACTIONS)
    /\ startup' = [startup EXCEPT
          !.pc = IF startup.token THEN "running" ELSE "stopped"]
    /\ UNCHANGED <<store, llm_available, now, last, procs>>

NextStartup ==
    \/ CompileTrigger
    \/ ConfigImported
    \/ CompileReaction
    \/ Main

SpecStartup == InitStartup /\ [][NextStartup]_vars

\* the entries of the catalog that are not in the compiled tables
DroppedPatterns ==
    {TriggerPattern(i) : i \in
        (1..Len(COMPILED_TRIGGERS))
            \ {startup.triggers[k] : k \in 1..Len(startup.triggers)}}
    \cup {ReactionPattern(i) : i \in
        (1..Len(COMPILED_REACTIONS))
            \ {startup.reactions[k] : k \in 1..Len(startup.reactions)}}

(***************************************************************************)
(* C24: if a trigger pattern of the catalog fails to compile, startup      *)
(* aborts: the bot is never running with compiled tables from which the    *)
(* entry of an invalid pattern was dropped.                                *)
(***************************************************************************)
C24_InvalidPatternAborts ==
    startup.pc = "running" =>
        /\ startup.invalid = {}
        /\ DroppedPatterns = {}

(***************************************************************************)
(* C25: Pole Canaria is the first-of-the-day race counted from 01:00       *)
(* Madrid time: a Pole Canaria message sent before 01:00 is not awarded.   *)
(***************************************************************************)
C25_CanariaFromOne ==
    \A update \in ClockUpdates :
        /\ Admissible(update)
        /\ TypeOf(update) = "Pole Canaria"
        /\ astimezone(update.date).hour
              < ALL_POLE_TYPES["Pole Canaria"].time_condition.start_hour
        => \A r \in Outcomes(update) : ~Awarded(r)

(***************************************************************************)
(* C26: Pole Mina is won after 20 attempts: in a group on a day the first  *)
(* 19 attempts are never awarded, and the 20th is awarded 1 to 10 points.  *)
(***************************************************************************)
C26_WonAtTwentieth ==
    \A update \in MinaUpdates :
        Admissible(update) =>
        \A r \in Outcomes(update) :
            LET n       == StoredCount(update.chat_id, DayOf(update)) + 1
                counter == ALL_POLE_TYPES["Pole Mina"].time_condition.counter
            IN  /\ n < counter => ~Awarded(r)
                /\ n = counter =>
                      /\ Awarded(r)
                      /\ r.out.pole_data # None
                      /\ r.out.pole_data.points \in RandomMinaPoints

\* messages of every kind: claims, a puzzle attempt, a malformed claim, a
\* cosmetic reaction, a text that matches nothing
ResultTexts ==
    GroupsTexts \cup {<<"fail">>, <<"pole", "xd">>, <<"dios", "xd">>, <<"hola">>}

ResultUpdates == GroupUpdates(ResultTexts, {Day1Night}, {1, 2}, GroupIds)

ResultOutcomes(update) ==
    {message_handler(DB, llm_available, update, rnd, {}) :
        rnd \in GroupsDraws(DB, update)}

\* the outputs of check_pole_message that are set
SetOutputs(out) ==
    {k \in {"pole_data", "counter_message", "reaction_data"} : out[k] # None}

(***************************************************************************)
(* C27: every message yields a single discriminated result: at most one of *)
(* the three outputs of check_pole_message (award data, counter progress   *)
(* message, reaction data) is set, and the handler sends the one kind of   *)
(* response that belongs to it, or none when no output is set.             *)
(***************************************************************************)
C27_SingleResult ==
    \A update \in ResultUpdates :
        Admissible(update) =>
        \A r \in ResultOutcomes(update) :
            /\ Cardinality(SetOutputs(r.out)) <= 1
            /\ r.out.reply = "pole" <=> SetOutputs(r.out) = {"pole_data"}
            /\ r.out.reply = "counter" <=> SetOutputs(r.out) = {"counter_message"}
            /\ r.out.reply \in {"reaction", "reaction+text"}
                  <=> SetOutputs(r.out) = {"reaction_data"}
            /\ r.out.reply = "none" <=> SetOutputs(r.out) = {}

\* a progress message was the answer to a puzzle attempt after a claim was
\* awarded, and the next message can be answered by a reaction with a text
C27_Witness ==
    /\ last.reply = "counter"
    /\ SetOutputs(last) = {"counter_message"}
    /\ Len(poles) >= 1
    /\ \E update \in ResultUpdates :
          /\ Admissible(update)
          /\ \E r \in ResultOutcomes(update) : r.out.reply = "reaction+text"

\* the time condition configured for a claim type
ConditionOf(t) ==
    IF "time_condition" \in DOMAIN ALL_POLE_TYPES[t]
    THEN ALL_POLE_TYPES[t].time_condition ELSE None

\* the trio of an ordered type: the ordered types configured with the same
\* time condition (Pole/Subpole/Subsubpole, the Canaria trio, the Andaluza
\* trio)
TrioOf(t) == {s \in OrderedTypes : ConditionOf(s) = ConditionOf(t)}

\* the ClaimRecords of (group, trio of t, day), in the order they were granted
TrioSlots(g, t, d) ==
    SelectSeq(poles, LAMBDA p :
        p.group_id = g /\ p.date = d /\ p.type \in TrioOf(t))

(***************************************************************************)
(* C28: the three slot trios run separate races: a claim for a type of one *)
(* trio that is not yet claimed and meets its time condition is awarded    *)
(* iff the slots below its own are granted within its trio and the user    *)
(* holds none of them, whatever was claimed in the other trios; Pole       *)
(* Andaluza between 12:00 and 16:00, no Andaluza type claimed yet, is      *)
(* awarded even if Pole and Subpole were claimed that day.                 *)
(***************************************************************************)
C28_TriosSeparate ==
    \A update \in RaceUpdates :
        LET t     == TypeOf(update)
            slots == TrioSlots(update.chat_id, t, DayOf(update))
        IN  /\ Admissible(update)
            /\ t \in OrderedTypes
            /\ RecordsOf(update.chat_id, t, DayOf(update)) = {}
            /\ check_time_condition(ALL_POLE_TYPES[t].time_condition,
                                    astimezone(update.date))
            => \A r \in Outcomes(update) :
                  Awarded(r) <=>
                     /\ Len(slots) = ALL_POLE_TYPES[t].order - 1
                     /\ \A i \in 1..Len(slots) : slots[i].user_id # update.user_id

\* claims that can be rejected for each of the causes: at 00:05 the time
\* conditions of Pole Andaluza and Hora Porro are false
RejectTexts ==
    {<<"pole">>, <<"subpole">>, <<"subsubpole">>, <<"pole", "andaluza">>,
     <<"hora", "porro">>, <<"fail">>}

RejectUpdates == GroupUpdates(RejectTexts, {Day1Night}, {1, 2}, GroupIds)

\* the claim count of group g
TotalPolesOf(collection, g) ==
    IF g \in DOMAIN collection THEN collection[g].total_poles ELSE 0

\* a claim of user u for type t in group g on day d at madrid_time meets a
\* cause of rejection in the current state: the type is already claimed
\* today, its time condition is false, its slot is not the next of its
\* family, or the user holds a slot of the family
CauseFor(t, g, d, u, madrid_time) ==
    \/ RecordsOf(g, t, d) # {}
    \/ /\ "time_condition" \in DOMAIN ALL_POLE_TYPES[t]
       /\ ~check_time_condition(ALL_POLE_TYPES[t].time_condition, madrid_time)
    \/ /\ t \in OrderedTypes
       /\ \/ Len(GrantedSlots(g, FamilyStartHour(ALL_POLE_TYPES[t]), d))
                # ALL_POLE_TYPES[t].order - 1
          \/ u \in SlotHolders(g, FamilyStartHour(ALL_POLE_TYPES[t]), d)

RejectionCause(update) ==
    CauseFor(TypeOf(update), update.chat_id, DayOf(update), update.user_id,
             astimezone(update.date))

\* the store r.db holds the records, the cache, the scores and the claim
\* counts of the current state
NothingAwarded(r) ==
    /\ r.db.poles = poles
    /\ r.db.poles_cache = poles_cache
    /\ \A u \in UserIds :
          /\ PointsIn(r.db.users, u) = PointsIn(users, u)
          /\ ClaimsIn(r.db.users, u) = ClaimsIn(users, u)
          /\ \A g \in GroupIds :
                /\ PointsIn(r.db.user_poles, <<u, g>>) = PointsIn(user_poles, <<u, g>>)
                /\ ClaimsIn(r.db.user_poles, <<u, g>>) = ClaimsIn(user_poles, <<u, g>>)
    /\ \A g \in GroupIds : TotalPolesOf(r.db.groups, g) = TotalPolesOf(groups, g)

(***************************************************************************)
(* C29: a rejected claim (type already claimed today, time condition       *)
(* false, slot out of order, or user already in the family) leaves every   *)
(* ClaimRecord, the claimed-types cache, every cumulative score and the    *)
(* group's claim count unchanged, and nothing is answered.                 *)
(***************************************************************************)
C29_RejectedChangesNothing ==
    \A update \in RejectUpdates :
        /\ Admissible(update)
        /\ TypeOf(update) \in NonCounterTypes
        /\ RejectionCause(update)
        => \A r \in Outcomes(update) :
              /\ NothingAwarded(r)
              /\ r.out.reply = "none"

\* Pole is claimed in a group, a message of its holder was then rejected,
\* and claims of each cause of rejection can be sent next
C29_Witness ==
    /\ Len(poles) = 1
    /\ poles[1].type = "Pole"
    /\ last.reply = "none"
    /\ \E update \in RejectUpdates :
          /\ Admissible(update)
          /\ TypeOf(update) = "Pole"
          /\ RecordsOf(update.chat_id, "Pole", DayOf(update)) # {}
    /\ \E update \in RejectUpdates :
          /\ Admissible(update)
          /\ TypeOf(update) = "Hora Porro"
          /\ RejectionCause(update)
    /\ \E update \in RejectUpdates :
          /\ Admissible(update)
          /\ TypeOf(update) = "Subpole"
          /\ update.user_id = poles[1].user_id
          /\ RejectionCause(update)
    /\ \E update \in RejectUpdates :
          /\ Admissible(update)
          /\ TypeOf(update) = "Subsubpole"
          /\ update.user_id # poles[1].user_id
          /\ RejectionCause(update)

(***************************************************************************)
(* C30: a claim type is marked as claimed for (group, day) in the          *)
(* claimed-types cache only if a ClaimRecord for it was stored: when       *)
(* storing the ClaimRecord fails, the type is not marked and stays         *)
(* claimable that day.                                                     *)
(***************************************************************************)
C30_MarkedOnlyIfStored ==
    \A key \in DOMAIN poles_cache :
        \A pole_type \in DOMAIN poles_cache[key].claimed :
            /\ RecordsOf(key[1], pole_type, key[2]) # {}
            /\ \E i \in RecordsOf(key[1], pole_type, key[2]) :
                  poles[i].user_id = poles_cache[key].claimed[pole_type].user_id

(***************************************************************************)
(* The claimed-types cache against the ClaimRecords.                       *)
(***************************************************************************)
\* the days for which the store holds a ClaimRecord or a cache document
DaysStored == DaysSeen \cup {key[2] : key \in DOMAIN poles_cache}

\* the ordered types marked claimed in the cache for (g, d), with their users
CacheOrdered(g, d) ==
    IF <<g, d>> \in DOMAIN poles_cache
    THEN {<<t, poles_cache[<<g, d>>].claimed[t].user_id>> :
             t \in {c \in DOMAIN poles_cache[<<g, d>>].claimed : IsOrderedType(c)}}
    ELSE {}

\* the ordered types that have a ClaimRecord for (g, d), with their users
RecordOrdered(g, d) ==
    {<<poles[i].type, poles[i].user_id>> :
        i \in {j \in 1..Len(poles) : /\ poles[j].group_id = g
                                     /\ poles[j].date = d
                                     /\ IsOrderedType(poles[j].type)}}

DummyFaults == {"pole_exists.cache", "check_order_condition.cache", "mark_pole_claimed"}

DummyTexts == { <<"fail">>, <<"pole">>, <<"subpole">>, <<"hola">> }

DummyUpdates == GroupUpdates(DummyTexts, {Day1Night, Day1Noon}, {1, 2}, GroupIds)

NextDummy ==
    \E update \in DummyUpdates :
        /\ Len(poles) < MaxPoles
        /\ HandleMessage(update, DummyFaults)

SpecDummy == Init /\ [][NextDummy]_vars

(***************************************************************************)
(* C32: on the in-memory fallback store claims obey the rules they obey on *)
(* the real store: a non-counter claim type, with or without a slot order, *)
(* has at most one ClaimRecord per (group, day).                           *)
(***************************************************************************)
C32_FallbackOncePerDay ==
    \A g \in GroupIds, d \in DaysSeen, t \in NonCounterTypes :
        Cardinality(RecordsOf(g, t, d)) <= 1

\* the same for the types with a slot order, which check_order_condition
\* guards from the ClaimRecords
FallbackOrderedOnce ==
    \A g \in GroupIds, d \in DaysSeen, t \in OrderedTypes :
        Cardinality(RecordsOf(g, t, d)) <= 1

(***************************************************************************)
(* Scores against ClaimRecords: awarded claims, the counter puzzle and     *)
(* malformed claims of two users in two groups, handled one at a time with *)
(* the store answering.                                                    *)
(***************************************************************************)
SumsTexts == {<<"pole">>, <<"pole", "mina">>, <<"pole", "xd">>}

SumsUpdates == GroupUpdates(SumsTexts, {Day1Night}, {1, 2}, GroupIds)

NextSums ==
    \E update \in SumsUpdates :
        /\ Progress <= MaxPoles
        /\ \E rnd \in GroupsDraws(DB, update) : HandleDrawn(update, rnd)

SpecSums == Init /\ [][NextSums]_vars

\* the sum of the group-scoped cumulative points of user u over the groups gs
RECURSIVE GroupPoints(_, _)
GroupPoints(u, gs) ==
    IF gs = {} THEN 0
    ELSE LET g == CHOOSE x \in gs : TRUE
         IN  PointsIn(user_poles, <<u, g>>) + GroupPoints(u, gs \ {g})

MaxReveals == 3

RevealUpdates == GroupUpdates({<<"pole", "mina">>}, {Day1Noon}, {1}, {-1})

\* the attempts that have reached a handler so far
Received ==
    Handled(1) + Handled(2) + Cardinality({p \in ProcIds : procs[p].pc # "idle"})

\* handlers.py:166-190  an attempt reaches a free handler
ReceiveAttempt(p, update) ==
    /\ procs[p].pc = "idle"
    /\ Received < MaxReveals
    /\ InOrder(update)
    /\ procs' = [procs EXCEPT ![p] =
          [pc |-> "User.create_or_update", handled |-> Handled(p),
           tracked |-> Tracked(p), update |-> update,
           pole_type |-> MatchTrigger(Normalize(update.text)),
           madrid_time |-> astimezone(update.date),
           info |-> None, pole_mina_doc |-> None, counter |-> None,
           pole_data |-> None, points |-> 0]]
    /\ now' = update.date
    /\ UNCHANGED <<store, llm_available, last, startup>>

NextReveal ==
    \E p \in ProcIds :
        \/ \E update \in RevealUpdates : ReceiveAttempt(p, update)
        \/ RegisterUser(p)
        \/ RegisterGroup(p)
        \/ MinaFind(p)
        \/ MinaInsert(p)
        \/ TrackFind(p)
        \/ TrackUpdate(p)
        \/ InsertPole(p)
        \/ IncUser(p)
        \/ IncUserPoles(p)
        \/ IncGroup(p)
        \/ MarkCompleted(p)
        \/ MarkClaimed(p)
        \/ RevealFind(p)
        \/ RevealUpdate(p)

SpecReveal == Init /\ [][NextReveal]_vars

\* the stored revealed positions are the first k indices of the secret
RevealedIsPrefix ==
    \A key \in DOMAIN pole_mina :
        /\ RevealedSet(pole_mina[key]) = 0..(Len(pole_mina[key].revealed_positions) - 1)
        /\ Len(pole_mina[key].revealed_positions) <= Len(pole_mina[key].random_string)

\* no step takes a position out of the stored revealed positions
RevealedKept ==
    \A key \in DOMAIN pole_mina :
        /\ key \in DOMAIN pole_mina'
        /\ RevealedSet(pole_mina[key]) \subseteq RevealedSet(pole_mina'[key])

(***************************************************************************)
(* C34: when attempts at the puzzle of one (group, day) are processed      *)
(* concurrently, their store reads and writes interleaved, the stored set  *)
(* of revealed positions is always a prefix of the secret's indices and    *)
(* never shrinks.                                                          *)
(***************************************************************************)
C34_RevealedNeverShrinks == [](RevealedIsPrefix) /\ [][RevealedKept]_vars

(***************************************************************************)
(* The masked secret of the progress messages.                             *)
(***************************************************************************)
\* the characters of a masked secret that are shown
ShownCount(masked_string) ==
    Cardinality({i \in 1..Len(masked_string) : masked_string[i] # "?"})

(***************************************************************************)
(* C35: with attempts handled one at a time, the masked secret in the      *)
(* progress message of the n-th attempt of the day, n below the required   *)
(* count, shows the secret's characters at the positions 0..n-1 and the    *)
(* placeholder '?' at every other position: exactly n characters, more     *)
(* than the progress message before it showed.                             *)
(***************************************************************************)
C35_MaskShowsFirstN ==
    \A update \in MinaUpdates :
        Admissible(update) =>
        \A r \in Outcomes(update) :
            LET g      == update.chat_id
                d      == DayOf(update)
                n      == StoredCount(g, d) + 1
                doc    == r.db.pole_mina[<<g, d>>]
                masked == r.out.counter_message.masked_string
            IN  n < doc.required_count =>
                    /\ r.out.reply = "counter"
                    /\ Len(masked) = Len(doc.random_string)
                    /\ \A i \in 1..Len(masked) :
                          masked[i] = IF i - 1 < n THEN doc.random_string[i] ELSE "?"
                    /\ ShownCount(masked) = n
                    /\ last.reply = "counter" =>
                          ShownCount(masked) > ShownCount(last.counter_message.masked_string)

\* the eighth progress message of a puzzle that needs ten attempts
C35_Witness ==
    /\ <<-1, 1>> \in DOMAIN pole_mina
    /\ pole_mina[<<-1, 1>>].required_count = 10
    /\ StoredCount(-1, 1) = 8
    /\ last.reply = "counter"
    /\ last.counter_message.attempt = 8
    /\ ShownCount(last.counter_message.masked_string) = 8
    /\ \E update \in MinaUpdates : Admissible(update)

(***************************************************************************)
(* Private chats and the commands that use the LLM, next to the game of a  *)
(* group.                                                                  *)
(***************************************************************************)
PrivateTexts == {<<"pole">>, <<"pole", "mina">>, <<"pole", "xd">>, <<"hola">>}

\* a private chat has the id of its user
PrivateUpdates ==
    {[text |-> t, date |-> Day1Night, user_id |-> u, is_bot |-> FALSE,
      chat_id |-> u, chat_type |-> "private", llm_probe |-> probe] :
        t \in PrivateTexts, u \in {1, 2}, probe \in LlmOutcomes}

PlayUpdates == GroupUpdates({<<"pole">>, <<"pole", "mina">>}, {Day1Night}, {1, 2}, {-1})

\* bot.py:49-51  a command is answered; the store is not touched
Command(r) ==
    /\ llm_available' = r.llm_available
    /\ last' = r.out
    /\ UNCHANGED <<store, now, procs, startup>>

StartCommand == \E probe \in LlmOutcomes : Command(start_command(llm_available, probe))

HelpCommand == \E probe \in LlmOutcomes : Command(help_command(llm_available, probe))

AskCommand ==
    \E args \in {<<>>, <<"hola">>}, probe \in LlmOutcomes, request \in LlmOutcomes :
        Command(ask_command(llm_available, args, probe, request))

NextPrivate ==
    \/ \E update \in PlayUpdates :
          /\ Progress < MaxPoles
          /\ \E rnd \in GroupsDraws(DB, update) : HandleDrawn(update, rnd)
    \/ \E update \in PrivateUpdates : HandleMessage(update, {})
    \/ StartCommand
    \/ HelpCommand
    \/ AskCommand

SpecPrivate == Init /\ [][NextPrivate]_vars

(***************************************************************************)
(* C36: a text message in a private chat, also one that is the trigger of  *)
(* a claim type or a malformed claim, creates no ClaimRecord and changes   *)
(* no counter, no puzzle, no claimed-types cache and no score: claims are  *)
(* processed only for messages in group and supergroup chats.              *)
(***************************************************************************)
C36_PrivateChangesNothing ==
    \A update \in PrivateUpdates :
        Admissible(update) =>
        \A r \in Outcomes(update) :
            /\ r.db.poles = poles
            /\ r.db.pole_counters = pole_counters
            /\ r.db.pole_mina = pole_mina
            /\ r.db.poles_cache = poles_cache
            /\ r.db.user_poles = user_poles
            /\ r.db.groups = groups
            /\ \A u \in UserIds :
                  /\ PointsIn(r.db.users, u) = PointsIn(users, u)
                  /\ ClaimsIn(r.db.users, u) = ClaimsIn(users, u)
            /\ r.out.pole_data = None
            /\ r.out.counter_message = None
            /\ r.out.reaction_data = None

\* a private message was answered while the puzzle of the group is open and
\* Pole is claimed; the private texts "pole mina" and "pole xd" can follow
C36_Witness ==
    /\ last.reply = "use /ask"
    /\ Len(poles) = 1
    /\ StoredCount(-1, 1) = 1
    /\ ~CounterCompleted(-1, 1)
    /\ \E update \in PrivateUpdates :
          /\ Admissible(update)
          /\ TypeOf(update) = "Pole Mina"
          /\ update.user_id \in DOMAIN users
    /\ \E update \in PrivateUpdates : Admissible(update) /\ Malformed(update)

\* the answers that are given only when the LLM counts as available
LlmReplies == {"use /ask", "welcome, /ask", "help, /ask", "usage", "answer",
               "could not connect", "unexpected error"}

\* the flag is False: no check and no query reads the LLM's answer
LlmOff ==
    llm_available = "False" =>
        /\ \A probe \in LlmOutcomes :
              check_llm_availability(llm_available, probe)
                  = [llm_available |-> "False", result |-> FALSE]
        /\ \A probe \in LlmOutcomes, request \in LlmOutcomes :
              query_llm(llm_available, probe, request)
                  = [llm_available |-> "False", answer |-> "fallback"]

\* the flag stays False, and the answer of the step is none of those given
\* when the LLM is available
LlmStaysOff ==
    llm_available = "False" =>
        /\ llm_available' = "False"
        /\ last'.reply \notin LlmReplies

(***************************************************************************)
(* C38: the LLM availability flag latches: once it is False (a failed test *)
(* request, or a connection error during a query), every later             *)
(* availability check answers False whatever the LLM would answer, every   *)
(* later query returns the fallback text, and the flag stays False.        *)
(***************************************************************************)
C38_LlmFlagLatches == [](LlmOff) /\ [][LlmStaysOff]_vars

\* the flag is False and /help was answered since, without the /ask line
C38_Witness ==
    /\ llm_available = "False"
    /\ last.reply = "help"

(***************************************************************************)
(* Registration repeated.  The handler upserts the sender's users document *)
(* and, in a group, the groups document at every message.                  *)
(***************************************************************************)
\* the users collection as the list DummyCollection holds: the documents in
\* the order of their insertion, which is the order of the ids
AsDummyUsers(collection) ==
    [i \in 1..Cardinality(DOMAIN collection) |->
        [telegram_id |-> i, is_bot |-> collection[i].is_bot,
         total_points |-> collection[i].total_points,
         poles_claimed |-> collection[i].poles_claimed, _id |-> i]]

\* the groups collection as the list DummyCollection holds
AsDummyGroups(collection) ==
    [i \in 1..Cardinality(DOMAIN collection) |->
        [chat_id |-> 0 - i, total_poles |-> collection[0 - i].total_poles, _id |-> i]]

\* the users and the groups that can send the next message
NextUsers == {u \in UserIds : u <= Cardinality(DOMAIN users) + 1}

NextGroupIds == {g \in GroupIds : 0 - g <= Cardinality(DOMAIN groups) + 1}

(***************************************************************************)
(* C37: registering again changes no accumulated total.                    *)
(* User.create_or_update leaves total_points and poles_claimed of an       *)
(* existing user as they are and Group.create_or_update leaves total_poles *)
(* of an existing group as it is, on the store and on the DummyCollection  *)
(* of the fallback store, whose update_one gives the documents the store's *)
(* upsert gives.                                                           *)
(***************************************************************************)
C37_ReRegisterKeepsTotals ==
    /\ \A u \in DOMAIN users, is_bot \in BOOLEAN :
          LET after == User_create_or_update(DB, u, is_bot, {}).users[u]
              dummy == Dummy_User_create_or_update(AsDummyUsers(users), u, is_bot)[u]
          IN  /\ after.total_points = users[u].total_points
              /\ after.poles_claimed = users[u].poles_claimed
              /\ dummy.total_points = users[u].total_points
              /\ dummy.poles_claimed = users[u].poles_claimed
    /\ \A g \in DOMAIN groups :
          /\ Group_create_or_update(DB, g, {}).groups[g].total_poles
                = groups[g].total_poles
          /\ Dummy_Group_create_or_update(AsDummyGroups(groups), g)[0 - g].total_poles
                = groups[g].total_poles
    /\ \A u \in NextUsers, is_bot \in BOOLEAN :
          Dummy_User_create_or_update(AsDummyUsers(users), u, is_bot)
              = AsDummyUsers(User_create_or_update(DB, u, is_bot, {}).users)
    /\ \A g \in NextGroupIds :
          Dummy_Group_create_or_update(AsDummyGroups(groups), g)
              = AsDummyGroups(Group_create_or_update(DB, g, {}).groups)

\* two users have points, both groups have claims, and the last message
\* registered its sender and its group again and was awarded nothing
C37_Witness ==
    /\ \A u \in {1, 2} : PointsIn(users, u) > 0 /\ ClaimsIn(users, u) > 0
    /\ \A g \in GroupIds : g \in DOMAIN groups /\ groups[g].total_poles > 0
    /\ last.reply = "none"
=============================================================================
